---- MODULE Spec2Model ----
(***************************************************************************)
(* Order lifecycle, plan version store and wall-segment splitter of the    *)
(* BTI remodel-order backend (backend/app).                                *)
(*                                                                         *)
(* The relational tables are sequences in insertion order, which is the    *)
(* order of their created_at / assigned_at columns.  Every request handler *)
(* is one action.  Python None is NoneStr for identifiers and strings,     *)
(* NoTime for datetimes, NoPrice for prices, NoComment for comments (a     *)
(* comment is a sequence of text fragments, so that concatenation and      *)
(* containment are computed) and <<>> for an optional JSON object.         *)
(***************************************************************************)
EXTENDS Integers, Sequences, FiniteSets, TLC

VARIABLES orders, history, assignments, versions, events, files, last,
          plan_in, plan_out, diff_in, diff_out, sessions,
          active_connections, connection_info, opened, broadcasts

vars == <<orders, history, assignments, versions, events, files, last,
          plan_in, plan_out, diff_in, diff_out, sessions,
          active_connections, connection_info, opened, broadcasts>>

dbvars == <<orders, history, assignments, versions, events, files>>

splitvars == <<plan_in, plan_out>>

diffvars == <<diff_in, diff_out>>

sessvars == <<sessions>>

wsvars == <<active_connections, connection_info, opened, broadcasts>>

\* ---------------------------------------------------------------- bounds
MaxHistory == 3

MaxVersions == 3

MaxAssignments == 2

MaxEvents == 2

\* ------------------------------------------------------------ null values
NoneStr == "None"

NoTime == 0

NoPrice == -1

NoComment == <<>>

\* ------------------------------------------------------------- enumerations
OrderStatus ==
  {"DRAFT", "SUBMITTED", "EXECUTOR_ASSIGNED", "VISIT_SCHEDULED",
   "DOCUMENTS_IN_PROGRESS", "READY_FOR_APPROVAL", "AWAITING_CLIENT_APPROVAL",
   "REJECTED_BY_EXECUTOR", "COMPLETED", "CANCELLED", "REJECTED"}

AssignmentStatus == {"ASSIGNED", "ACCEPTED", "DECLINED", "COMPLETED"}

\* ------------------------------------------------------------------- users
OrderIds == {"o1"}

Clients == {"c1", "c2"}

Executors == {"e1", "e2"}

Admins == {"a1"}

FileIds == {"f1"}

\* executor_profile.department_code of an executor (e2 has none)
ExecutorDepartment(e) == IF e = "e1" THEN "dep1" ELSE NoneStr

\* user_service.get_user_by_id(...) and user.executor_profile
HasExecutorProfile(u) == u \in Executors

\* ----------------------------------------------------------------- helpers
Last(s) == s[Len(s)]

\* the fragments of c occur, contiguous and in order, inside comment
Contains(comment, c) ==
  \E i \in 0..(Len(comment) - Len(c)) :
      \A k \in 1..Len(c) : comment[i + k] = c[k]

\* str.lower() / str.upper() on the version-type labels in use
Lower(s) ==
  CASE s = "ORIGINAL" -> "original"
    [] s = "MODIFIED" -> "modified"
    [] s = "EXECUTOR_EDITED" -> "executor_edited"
    [] s = "FINAL" -> "final"
    [] OTHER -> s

Upper(s) ==
  CASE s = "original" -> "ORIGINAL"
    [] s = "modified" -> "MODIFIED"
    [] s = "executor_edited" -> "EXECUTOR_EDITED"
    [] s = "final" -> "FINAL"
    [] OTHER -> s

Max(a, b) == IF a >= b THEN a ELSE b

Min(a, b) == IF a <= b THEN a ELSE b

Abs(a) == IF a < 0 THEN -a ELSE a

\* ================================================================ plans
\* A plan document is [meta |-> [scale |-> <<>> or <<scale record>>],
\* elements |-> sequence of elements].  An element is
\* [id, type, role, zoneType, thickness, geometry]; a wall geometry is
\* [kind, points, openings] with openings == [none |-> BOOLEAN, items |-> Seq]
\* (none = TRUE is Python None).  Lengths are integers: the inputs use
\* axis-parallel walls whose pixel length is a multiple of px_per_meter, so
\* every float the code computes is an exact integer.

NoOpenings == [none |-> TRUE, items |-> <<>>]

Openings(items) == [none |-> FALSE, items |-> items]

Opening(from_m, to_m) == [from_m |-> from_m, to_m |-> to_m]

Scale(px_per_meter, pxPerMeter) ==
  <<[px_per_meter |-> px_per_meter, pxPerMeter |-> pxPerMeter]>>

WallGeometry(kind, points, openings) ==
  [kind |-> kind, points |-> points, openings |-> openings]

Element(id, type, role, geometry) ==
  [id |-> id, type |-> type, role |-> role, zoneType |-> NoneStr,
   thickness |-> 20, geometry |-> geometry]

Plan(scale, elements) == [meta |-> [scale |-> scale], elements |-> elements]

\* ------------------------------------------------- _split_wall_segments
\* lines 53-61: px_per_meter, 1 when absent, zero or negative
SplitPxPerMeter(plan) ==
  LET scale == IF plan.meta.scale = <<>>
               THEN [px_per_meter |-> 0, pxPerMeter |-> 0]
               ELSE plan.meta.scale[1]
      raw == IF scale.px_per_meter # 0 THEN scale.px_per_meter
             ELSE IF scale.pxPerMeter # 0 THEN scale.pxPerMeter
             ELSE 1
  IN IF raw <= 0 THEN 1 ELSE raw

\* math.hypot on the integer inputs in use (exact for axis-parallel walls)
Hypot(dx, dy) ==
  CHOOSE n \in 0..(Abs(dx) + Abs(dy)) : n * n = dx * dx + dy * dy

\* sorted(openings, key=from_m): Python's sort is stable
RECURSIVE InsertByFrom(_, _)
InsertByFrom(s, op) ==
  IF s = <<>> THEN <<op>>
  ELSE IF Last(s).from_m <= op.from_m THEN Append(s, op)
  ELSE Append(InsertByFrom(SubSeq(s, 1, Len(s) - 1), op), Last(s))

RECURSIVE SortedByFrom(_)
SortedByFrom(ops) ==
  IF ops = <<>> THEN <<>>
  ELSE InsertByFrom(SortedByFrom(SubSeq(ops, 1, Len(ops) - 1)), Last(ops))

\* lines 92-99: the cursor walk over the sorted openings
RECURSIVE CursorWalk(_, _, _, _)
CursorWalk(ops, length_m, cursor, segments) ==
  IF ops = <<>> THEN [cursor |-> cursor, segments |-> segments]
  ELSE LET op == Head(ops)
           start0 == Max(0, op.from_m)
           end0 == Max(start0, op.to_m)
           start == Min(start0, length_m)
           end == Min(end0, length_m)
           segs == IF start > cursor
                   THEN Append(segments, <<cursor, start>>)
                   ELSE segments
       IN CursorWalk(Tail(ops), length_m, Max(cursor, end), segs)

\* lines 89-101: the solid intervals (in metres) of a wall
WallSegments(openings, length_m) ==
  LET w == CursorWalk(SortedByFrom(openings), length_m, 0, <<>>)
  IN IF w.cursor < length_m
     THEN Append(w.segments, <<w.cursor, length_m>>)
     ELSE w.segments

\* lines 84-87: point_at
PointAt(points, px_per_meter, length_px, offset_m) ==
  LET dx == points[3] - points[1]
      dy == points[4] - points[2]
      offset_px == offset_m * px_per_meter
  IN <<points[1] + (dx * offset_px) \div length_px,
       points[2] + (dy * offset_px) \div length_px>>

\* lines 107-118: the elements emitted for the segments idx..Len(segments)
RECURSIVE SegmentElements(_, _, _, _, _)
SegmentElements(elem, segments, idx, px_per_meter, length_px) ==
  IF idx > Len(segments) THEN <<>>
  ELSE LET seg == segments[idx]
           s == PointAt(elem.geometry.points, px_per_meter, length_px, seg[1])
           e == PointAt(elem.geometry.points, px_per_meter, length_px, seg[2])
           new_elem ==
             [elem EXCEPT
                !.id = elem.id \o "_seg" \o ToString(idx),
                !.geometry = [elem.geometry EXCEPT
                                !.points = <<s[1], s[2], e[1], e[2]>>,
                                !.openings = NoOpenings]]
           rest == SegmentElements(elem, segments, idx + 1, px_per_meter,
                                   length_px)
       IN IF seg[2] - seg[1] <= 0 THEN rest ELSE <<new_elem>> \o rest

\* a variant that sends a wall with an empty openings list on to the split
WallPassesThrough_nonempty(elem) ==
  \/ elem.geometry.kind # "segment"
  \/ Len(elem.geometry.points) # 4
  \/ elem.geometry.openings.none

\* lines 71: the wall is not a candidate for splitting
WallPassesThrough(elem) ==
  \/ elem.geometry.kind # "segment"
  \/ Len(elem.geometry.points) # 4
  \/ elem.geometry.openings.none
  \/ elem.geometry.openings.items = <<>>

\* a variant whose segments keep the openings of the wall they were cut from
SplitElement_keeps_openings(elem, px_per_meter) ==
  IF elem.type # "wall" THEN <<elem>>
  ELSE IF WallPassesThrough(elem) THEN <<elem>>
  ELSE LET points == elem.geometry.points
           length_px == Hypot(points[3] - points[1], points[4] - points[2])
           length_m == length_px \div px_per_meter
           segments == WallSegments(elem.geometry.openings.items, length_m)
           out == SegmentElements(elem, segments, 1, px_per_meter, length_px)
       IN IF length_px = 0 THEN <<elem>>
          ELSE IF segments = <<>> THEN <<elem>>
          ELSE [i \in 1..Len(out) |->
                  [out[i] EXCEPT
                     !.geometry.openings = elem.geometry.openings]]

\* lines 65-118: what one input element contributes to the output
SplitElement(elem, px_per_meter) ==
  IF elem.type # "wall" THEN <<elem>>
  ELSE IF WallPassesThrough(elem) THEN <<elem>>
  ELSE LET points == elem.geometry.points
           length_px == Hypot(points[3] - points[1], points[4] - points[2])
           length_m == length_px \div px_per_meter
           segments == WallSegments(elem.geometry.openings.items, length_m)
       IN IF length_px = 0 THEN <<elem>>
          ELSE IF segments = <<>> THEN <<elem>>
          ELSE SegmentElements(elem, segments, 1, px_per_meter, length_px)

RECURSIVE SplitElements(_, _)
SplitElements(elements, px_per_meter) ==
  IF elements = <<>> THEN <<>>
  ELSE SplitElement(Head(elements), px_per_meter)
         \o SplitElements(Tail(elements), px_per_meter)

\* _split_wall_segments(plan)
SplitWallSegments(plan) ==
  [plan EXCEPT !.elements = SplitElements(plan.elements, SplitPxPerMeter(plan))]


\* ------------------------------------------------- _calculate_plan_diff
\* {elem.get("id"): elem for elem in elements}: the keys of the dict, in the
\* order of their first occurrence
RECURSIVE DictKeys(_)
DictKeys(elements) ==
  IF elements = <<>> THEN <<>>
  ELSE LET front == DictKeys(SubSeq(elements, 1, Len(elements) - 1))
           id == Last(elements).id
       IN IF \E i \in 1..Len(front) : front[i] = id THEN front
          ELSE Append(front, id)

\* the value of the dict at a key: the last element that carries the id
DictGet(elements, id) ==
  LET hits == {i \in 1..Len(elements) : elements[i].id = id}
  IN elements[CHOOSE i \in hits : \A k \in hits : k <= i]

\* a variant that reports every element of the modified plan as added
calculate_plan_diff_all_added(original_plan, modified_plan) ==
  LET original_keys == DictKeys(original_plan.elements)
      modified_keys == DictKeys(modified_plan.elements)
      In(keys, id) == \E i \in 1..Len(keys) : keys[i] = id
      NotInModified(id) == ~In(modified_keys, id)
  IN [deleted |-> SelectSeq(original_keys, NotInModified),
      added |-> modified_keys,
      modified |-> {}]

\* a variant that does not compare zoneType
calculate_plan_diff_no_zone(original_plan, modified_plan) ==
  LET original_keys == DictKeys(original_plan.elements)
      modified_keys == DictKeys(modified_plan.elements)
      In(keys, id) == \E i \in 1..Len(keys) : keys[i] = id
      NotInModified(id) == ~In(modified_keys, id)
      NotInOriginal(id) == ~In(original_keys, id)
      Changed(id) ==
        LET orig_elem == DictGet(original_plan.elements, id)
            mod_elem == DictGet(modified_plan.elements, id)
        IN \/ orig_elem.geometry # mod_elem.geometry
           \/ orig_elem.role # mod_elem.role
  IN [deleted |-> SelectSeq(original_keys, NotInModified),
      added |-> SelectSeq(modified_keys, NotInOriginal),
      modified |-> {original_keys[i] : i \in
                      {k \in 1..Len(original_keys) :
                         /\ In(modified_keys, original_keys[k])
                         /\ Changed(original_keys[k])}}]

\* lines 595-628 (and executor_orders.py 429-462, the same code): deleted and
\* added are lists in dict order; modified is filled by iterating a set
\* intersection, whose order is unspecified, and is kept as a set
calculate_plan_diff(original_plan, modified_plan) ==
  LET original_keys == DictKeys(original_plan.elements)
      modified_keys == DictKeys(modified_plan.elements)
      In(keys, id) == \E i \in 1..Len(keys) : keys[i] = id
      NotInModified(id) == ~In(modified_keys, id)
      NotInOriginal(id) == ~In(original_keys, id)
      Changed(id) ==
        LET orig_elem == DictGet(original_plan.elements, id)
            mod_elem == DictGet(modified_plan.elements, id)
        IN \/ orig_elem.geometry # mod_elem.geometry
           \/ orig_elem.role # mod_elem.role
           \/ orig_elem.zoneType # mod_elem.zoneType
  IN [deleted |-> SelectSeq(original_keys, NotInModified),
      added |-> SelectSeq(modified_keys, NotInOriginal),
      modified |-> {original_keys[i] : i \in
                      {k \in 1..Len(original_keys) :
                         /\ In(modified_keys, original_keys[k])
                         /\ Changed(original_keys[k])}}]

\* -------------------------------------------------- plan documents in use
WallA1 ==
  Element("w1", "wall", "EXISTING",
          WallGeometry("segment", <<0, 0, 4, 0>>, Openings(<<Opening(1, 2)>>)))

WallA2 ==
  Element("w2", "wall", "EXISTING",
          WallGeometry("segment", <<4, 0, 4, 4>>, NoOpenings))

WallB1 ==
  Element("w1", "wall", "MODIFIED",
          WallGeometry("segment", <<0, 0, 2, 0>>, NoOpenings))

WallB3 ==
  Element("w3", "wall", "NEW",
          WallGeometry("segment", <<0, 4, 4, 4>>, Openings(<<Opening(0, 1)>>)))

PlanA == Plan(Scale(1, 0), <<WallA1, WallA2>>)

PlanB == Plan(Scale(1, 0), <<WallB1, WallB3>>)

PlanDocs == {PlanA, PlanB}

\* plan_recognition_service.get_plan_by_filename: the template of a known
\* file name, <<>> when there is none
GetPlanByFilename(filename) ==
  IF filename = "plan.png" THEN <<PlanA>> ELSE <<>>

\* ============================================================ the database
DB ==
  [orders |-> orders, history |-> history, assignments |-> assignments,
   versions |-> versions, events |-> events, files |-> files]

\* the tables stay within the bounds of the model
Fits(db) ==
  /\ Len(db.history) <= MaxHistory
  /\ Len(db.versions) <= MaxVersions
  /\ Len(db.assignments) <= MaxAssignments
  /\ Len(db.events) <= MaxEvents

\* db.commit() of the handler's unit of work
Commit(db) ==
  /\ Fits(db)
  /\ orders' = db.orders
  /\ history' = db.history
  /\ assignments' = db.assignments
  /\ versions' = db.versions
  /\ events' = db.events
  /\ files' = db.files

\* the request fails: nothing is written
Rollback == UNCHANGED dbvars

Exists(o) == o \in DOMAIN orders

\* ---------------------------------------------------------------- pricing
DistrictCoef(district_code) == IF district_code = "d1" THEN 2 ELSE 1

HouseCoef(house_type_code) == IF house_type_code = "h1" THEN 3 ELSE 1

\* calculate_price: area * 500, scaled by district and house type
CalculatePrice(district_code, house_type_code, calculator_input) ==
  LET area == IF calculator_input = <<>> THEN 0 ELSE calculator_input[1].area
  IN area * 500 * DistrictCoef(district_code) * HouseCoef(house_type_code)

calculate_order_price(order, calculator_input) ==
  CalculatePrice(order.district_code, order.house_type_code, calculator_input)

\* ------------------------------------------------------ order_service.py
\* a variant that inserts the history row without writing order.status
add_status_history_row_only(db, o, status_value, user, comment) ==
  [db EXCEPT
     !.history = Append(@, [order_id |-> o, status |-> status_value,
                            changed_by_id |-> user, comment |-> comment])]

add_status_history(db, o, status_value, user, comment) ==
  [db EXCEPT
     !.orders[o].status = status_value,
     !.history = Append(@, [order_id |-> o, status |-> status_value,
                            changed_by_id |-> user, comment |-> comment])]

create_order(db, o, client, data) ==
  LET order0 ==
        [client_id |-> client,
         current_department_code |-> NoneStr,
         district_code |-> data.district_code,
         house_type_code |-> data.house_type_code,
         title |-> data.title,
         description |-> data.description,
         address |-> data.address,
         status |-> "SUBMITTED",
         calculator_input |-> data.calculator_input,
         estimated_price |-> NoPrice,
         total_price |-> NoPrice,
         planned_visit_at |-> NoTime,
         completed_at |-> NoTime,
         ai_decision_status |-> NoneStr,
         ai_decision_summary |-> NoneStr]
      order == [order0 EXCEPT
                  !.estimated_price =
                     calculate_order_price(order0, data.calculator_input)]
  IN [db EXCEPT
        !.orders = [x \in DOMAIN db.orders \cup {o} |->
                      IF x = o THEN order ELSE db.orders[x]],
        !.history = Append(@, [order_id |-> o, status |-> order.status,
                               changed_by_id |-> client,
                               comment |-> NoComment])]

\* a variant that also lets the client edit an order an executor holds
ClientEditableStatus_wider(status) ==
  status \in {"DRAFT", "SUBMITTED", "EXECUTOR_ASSIGNED"}

ClientEditableStatus(status) == status \in {"DRAFT", "SUBMITTED"}

\* lines 90-102 of update_order_by_client
update_order_by_client(db, o, data) ==
  LET old == db.orders[o]
      upd(field) == IF data[field] # NoneStr THEN data[field] ELSE old[field]
      o1 == [old EXCEPT
               !.title = upd("title"),
               !.description = upd("description"),
               !.address = upd("address"),
               !.district_code = upd("district_code"),
               !.house_type_code = upd("house_type_code"),
               !.calculator_input =
                  IF data.calculator_input # <<>> THEN data.calculator_input
                  ELSE @]
      o2 == [o1 EXCEPT
               !.estimated_price =
                  calculate_order_price(o1, o1.calculator_input)]
  IN [db EXCEPT !.orders[o] = o2]

admin_send_for_revision(db, o, admin, comment) ==
  add_status_history(db, o, "SUBMITTED", admin, comment)

\* a variant that stamps the completion time
admin_approve_order_stamped(db, o, admin, comment) ==
  [add_status_history(db, o, "COMPLETED", admin, comment)
     EXCEPT !.orders[o].completed_at = 1]

admin_approve_order(db, o, admin, comment) ==
  add_status_history(db, o, "COMPLETED", admin, comment)

admin_reject_order(db, o, admin, comment) ==
  add_status_history(db, o, "REJECTED", admin, comment)

\* a variant that writes the status without a history row
assign_executor_silent(db, o, executor, assigned_by) ==
  [db EXCEPT
     !.orders[o].status = "EXECUTOR_ASSIGNED",
     !.assignments =
        Append(@, [order_id |-> o, executor_id |-> executor,
                   assigned_by_id |-> assigned_by, status |-> "ASSIGNED"])]

assign_executor(db, o, executor, assigned_by) ==
  LET dep == ExecutorDepartment(executor)
      db1 == [db EXCEPT
                !.orders[o].current_department_code =
                   IF dep # NoneStr /\ @ = NoneStr THEN dep ELSE @,
                !.assignments =
                   Append(@, [order_id |-> o, executor_id |-> executor,
                              assigned_by_id |-> assigned_by,
                              status |-> "ASSIGNED"])]
  IN add_status_history(db1, o, "EXECUTOR_ASSIGNED", assigned_by, NoComment)

\* a variant of the lookup that matches on the order only
AssignmentsOf_any_executor(db, o, executor) ==
  {i \in 1..Len(db.assignments) : db.assignments[i].order_id = o}

\* the assignment rows of (order, executor): what the lookup of take and
\* decline can return (no ORDER BY: any matching row)
AssignmentsOf(db, o, executor) ==
  {i \in 1..Len(db.assignments) :
      /\ db.assignments[i].order_id = o
      /\ db.assignments[i].executor_id = executor}

\* a variant that leaves the status of a row it found as it was
executor_take_order_as_found(db, o, executor, found) ==
  LET db1 == IF found = 0 THEN assign_executor(db, o, executor, executor)
             ELSE db
      db2 == IF found = 0
             THEN [db1 EXCEPT
                     !.assignments[Len(db1.assignments)].status = "ACCEPTED"]
             ELSE db1
  IN add_status_history(db2, o, "EXECUTOR_ASSIGNED", executor, NoComment)

\* executor_take_order; found is the row the lookup returned, 0 for none
executor_take_order(db, o, executor, found) ==
  LET db1 == IF found = 0 THEN assign_executor(db, o, executor, executor)
             ELSE db
      i == IF found = 0 THEN Len(db1.assignments) ELSE found
      db2 == [db1 EXCEPT !.assignments[i].status = "ACCEPTED"]
  IN add_status_history(db2, o, "EXECUTOR_ASSIGNED", executor, NoComment)

\* executor_decline_order on the row the lookup returned
executor_decline_order(db, o, executor, found) ==
  LET db1 == [db EXCEPT !.assignments[found].status = "DECLINED"]
  IN add_status_history(db1, o, "REJECTED", executor, NoComment)

\* the version rows of (order, version_type): what the lookup of
\* add_plan_version can return (exact string match, no ORDER BY)
VersionsOf(db, o, version_type) ==
  {i \in 1..Len(db.versions) :
      /\ db.versions[i].order_id = o
      /\ db.versions[i].version_type = version_type}

\* add_plan_version; found is the row the lookup returned, 0 for none
add_plan_version(db, o, payload, created_by, found) ==
  IF found # 0
  THEN [db EXCEPT
          !.versions[found].plan = payload.plan,
          !.versions[found].comment =
             IF payload.comment # NoComment THEN payload.comment ELSE @,
          !.versions[found].created_by_id =
             IF created_by # NoneStr THEN created_by ELSE @]
  ELSE [db EXCEPT
          !.versions =
             Append(@, [order_id |-> o,
                        version_type |-> payload.version_type,
                        plan |-> payload.plan,
                        is_applied |-> TRUE,
                        comment |-> payload.comment,
                        created_by_id |-> created_by])]

\* get_plan_versions: the order's versions by created_at
get_plan_versions(db, o) ==
  LET OfOrder(v) == v.order_id = o IN SelectSeq(db.versions, OfOrder)

ApprovedComment == <<"plan approved by executor">>

\* a variant whose FINAL version copies the oldest version of the order
executor_approve_plan_oldest(db, o, executor, comment) ==
  LET vs == get_plan_versions(db, o)
      db1 == IF vs = <<>> THEN db
             ELSE [db EXCEPT
                     !.versions =
                        Append(@, [order_id |-> o,
                                   version_type |-> "FINAL",
                                   plan |-> Head(vs).plan,
                                   is_applied |-> TRUE,
                                   comment |-> IF comment # NoComment
                                               THEN comment
                                               ELSE ApprovedComment,
                                   created_by_id |-> executor])]
  IN add_status_history(db1, o, "READY_FOR_APPROVAL", executor, comment)

\* executor_approve_plan, lines 420-449: a FINAL copy of the latest version,
\* when there is one, and the status change, in one commit
executor_approve_plan(db, o, executor, comment) ==
  LET vs == get_plan_versions(db, o)
      db1 == IF vs = <<>> THEN db
             ELSE [db EXCEPT
                     !.versions =
                        Append(@, [order_id |-> o,
                                   version_type |-> "FINAL",
                                   plan |-> Last(vs).plan,
                                   is_applied |-> TRUE,
                                   comment |-> IF comment # NoComment
                                               THEN comment
                                               ELSE ApprovedComment,
                                   created_by_id |-> executor])]
  IN add_status_history(db1, o, "READY_FOR_APPROVAL", executor, comment)

EditedPrefix == <<"plan edited by executor. ">>

\* a variant that stores the edited version as applied
executor_edit_plan_applied(db, o, executor, plan_data, comment) ==
  LET db1 == [db EXCEPT
                !.versions =
                   Append(@, [order_id |-> o,
                              version_type |-> "EXECUTOR_EDITED",
                              plan |-> plan_data,
                              is_applied |-> TRUE,
                              comment |-> comment,
                              created_by_id |-> executor])]
  IN add_status_history(db1, o, "AWAITING_CLIENT_APPROVAL", executor,
                        EditedPrefix \o comment)

executor_edit_plan(db, o, executor, plan_data, comment) ==
  LET db1 == [db EXCEPT
                !.versions =
                   Append(@, [order_id |-> o,
                              version_type |-> "EXECUTOR_EDITED",
                              plan |-> plan_data,
                              is_applied |-> FALSE,
                              comment |-> comment,
                              created_by_id |-> executor])]
  IN add_status_history(db1, o, "AWAITING_CLIENT_APPROVAL", executor,
                        EditedPrefix \o comment)

IssuesHeader == <<"\nissues:\n">>

executor_reject_plan(db, o, executor, comment, issues) ==
  add_status_history(db, o, "REJECTED_BY_EXECUTOR", executor,
                     IF issues # <<>> THEN comment \o IssuesHeader \o issues
                     ELSE comment)

create_calendar_event(db, executor_id, o, start_time, end_time, location) ==
  [db EXCEPT
     !.events = Append(@, [executor_id |-> executor_id, order_id |-> o,
                           start_time |-> start_time, end_time |-> end_time,
                           location |-> location])]

\* schedule_visit after the executor has been found
schedule_visit(db, o, executor_id, start_time, end_time, location) ==
  LET db1 == [db EXCEPT !.orders[o].planned_visit_at = start_time]
      db2 == add_status_history(db1, o, "VISIT_SCHEDULED", executor_id,
                                NoComment)
  IN create_calendar_event(db2, executor_id, o, start_time, end_time,
                           location)

\* lines 579-584 of update_visit: the executor of the latest assignment
LatestAssignmentExecutor(db, o) ==
  LET OfOrder(a) == a.order_id = o
      rows == SelectSeq(db.assignments, OfOrder)
  IN IF rows = <<>> THEN NoneStr ELSE Last(rows).executor_id

Or(a, b) == IF a # NoTime THEN a ELSE b

\* lines 587-603 of update_visit, for the executor it resolved
update_visit(db, o, exec_id, start_time, end_time, status_value) ==
  LET planned == Or(start_time, db.orders[o].planned_visit_at)
      db1 == [db EXCEPT !.orders[o].planned_visit_at = planned]
      db2 == create_calendar_event(db1, exec_id, o, planned,
                                   Or(end_time, Or(start_time, planned)),
                                   NoneStr)
  IN IF status_value \in OrderStatus
     THEN add_status_history(db2, o, status_value, NoneStr, NoComment)
     ELSE db2

\* ---------------------------------------- the commits of a request, in order
\* executor_take_order: assign_executor commits (line 121) before the
\* acceptance is committed, when the executor had no assignment
executor_take_order_commits(db, o, executor, found) ==
  IF found = 0
  THEN <<assign_executor(db, o, executor, executor),
         executor_take_order(db, o, executor, found)>>
  ELSE <<executor_take_order(db, o, executor, found)>>

\* a variant whose first commit holds the status and whose second commit
\* holds the history row
schedule_visit_commits_torn(db, o, executor_id, start_time, end_time, location) ==
  <<[db EXCEPT !.orders[o].planned_visit_at = start_time,
               !.orders[o].status = "VISIT_SCHEDULED"],
    schedule_visit(db, o, executor_id, start_time, end_time, location)>>

\* schedule_visit: add_status_history commits the planned time, the status
\* and the history row; create_calendar_event commits the event
schedule_visit_commits(db, o, executor_id, start_time, end_time, location) ==
  <<add_status_history([db EXCEPT !.orders[o].planned_visit_at = start_time],
                       o, "VISIT_SCHEDULED", executor_id, NoComment),
    schedule_visit(db, o, executor_id, start_time, end_time, location)>>

\* update_visit: create_calendar_event commits the planned time and the
\* event; add_status_history commits the status, when one is carried
update_visit_commits(db, o, exec_id, start_time, end_time, status_value) ==
  IF status_value \in OrderStatus
  THEN <<update_visit(db, o, exec_id, start_time, end_time, NoneStr),
         update_visit(db, o, exec_id, start_time, end_time, status_value)>>
  ELSE <<update_visit(db, o, exec_id, start_time, end_time, status_value)>>

\* admin_orders.update_order: add_status_history commits the status, when
\* one is carried; the endpoint commits the other fields (line 287)
admin_update_commits(db, o, a, data) ==
  LET db1 == IF data.status # NoneStr
             THEN add_status_history(db, o, data.status, a, NoComment)
             ELSE db
      old == db1.orders[o]
      new == [old EXCEPT
                !.current_department_code =
                   IF data.current_department_code # NoneStr
                   THEN data.current_department_code ELSE @,
                !.estimated_price =
                   IF data.estimated_price # NoPrice
                   THEN data.estimated_price ELSE @,
                !.total_price =
                   IF data.total_price # NoPrice THEN data.total_price ELSE @,
                !.planned_visit_at =
                   IF data.planned_visit_at # NoTime
                   THEN data.planned_visit_at ELSE @,
                !.completed_at =
                   IF data.completed_at # NoTime THEN data.completed_at
                   ELSE @]
      db2 == [db1 EXCEPT !.orders[o] = new]
  IN IF data.status # NoneStr THEN <<db1, db2>> ELSE <<db2>>


\* ================================================================= inputs
Times == {1, 2}

UserComment == <<"Moved wall 2m">>

OptionalComments == {NoComment, UserComment}

IssueLists == {<<>>, <<"- no scale">>}

CreatePayloads ==
  {[title |-> "Kitchen remodel", description |-> NoneStr, address |-> NoneStr,
    district_code |-> NoneStr, house_type_code |-> NoneStr,
    calculator_input |-> <<>>],
   [title |-> "Loft", description |-> "two rooms", address |-> "Main st. 1",
    district_code |-> "d1", house_type_code |-> "h1",
    calculator_input |-> <<[area |-> 2]>>]}

UpdatePayloads ==
  {[title |-> "Bathroom remodel", description |-> NoneStr,
    address |-> NoneStr, district_code |-> NoneStr,
    house_type_code |-> NoneStr, calculator_input |-> <<>>],
   [title |-> NoneStr, description |-> "new text", address |-> "Side st. 2",
    district_code |-> "d1", house_type_code |-> NoneStr,
    calculator_input |-> <<[area |-> 3]>>]}

AdminUpdatePayloads ==
  {[status |-> "COMPLETED", current_department_code |-> NoneStr,
    estimated_price |-> NoPrice, total_price |-> NoPrice,
    planned_visit_at |-> NoTime, completed_at |-> NoTime],
   [status |-> "DRAFT", current_department_code |-> NoneStr,
    estimated_price |-> NoPrice, total_price |-> NoPrice,
    planned_visit_at |-> NoTime, completed_at |-> NoTime],
   [status |-> NoneStr, current_department_code |-> "dep2",
    estimated_price |-> 700, total_price |-> 900,
    planned_visit_at |-> 2, completed_at |-> 1]}

SavePayloads ==
  {[version_type |-> "ORIGINAL", plan |-> PlanA, comment |-> NoComment],
   [version_type |-> "ORIGINAL", plan |-> PlanB, comment |-> UserComment],
   [version_type |-> "EXECUTOR_EDITED", plan |-> PlanB,
    comment |-> NoComment]}

VisitPayloads ==
  {[executor_id |-> "e1", start_time |-> 1, end_time |-> 2,
    location |-> "flat 5"],
   [executor_id |-> "c2", start_time |-> 1, end_time |-> 2,
    location |-> "flat 5"]}

VisitUpdatePayloads ==
  {[executor_id |-> NoneStr, start_time |-> NoTime, end_time |-> NoTime,
    status |-> NoneStr],
   [executor_id |-> "e2", start_time |-> 2, end_time |-> NoTime,
    status |-> "DOCUMENTS_IN_PROGRESS"],
   [executor_id |-> NoneStr, start_time |-> 2, end_time |-> 2,
    status |-> "bogus"]}

Filenames == {"plan.png", "scan.pdf"}

ParseComment == <<"automatic plan parsing result">>

RecognizedComment == <<"plan recognized from image">>

\* ================================================================ handlers
Respond(op, code, o, user, arg) ==
  last' = [op |-> op, code |-> code, o |-> o, user |-> user, arg |-> arg]

Fail(op, code, o, user, arg) == Rollback /\ Respond(op, code, o, user, arg)

\* POST /client/orders
CreateOrder(c, o, data) ==
  /\ ~Exists(o)
  /\ Commit(create_order(DB, o, c, data))
  /\ Respond("create_order", 201, o, c, data)

\* PATCH /client/orders/{id}
ClientUpdateOrder(c, o, data) ==
  LET R(code) == Respond("client_update", code, o, c, data)
  IN IF ~Exists(o) THEN Rollback /\ R(404)
     ELSE IF orders[o].client_id # c THEN Rollback /\ R(403)
     ELSE IF ~ClientEditableStatus(orders[o].status) THEN Rollback /\ R(400)
     ELSE Commit(update_order_by_client(DB, o, data)) /\ R(200)

\* PATCH /admin/orders/{id}
AdminUpdateOrder(a, o, data) ==
  LET R(code) == Respond("admin_update", code, o, a, data)
  IN IF ~Exists(o) THEN Rollback /\ R(404)
     ELSE Commit(Last(admin_update_commits(DB, o, a, data))) /\ R(200)

\* POST /admin/orders/{id}/assign-executor
AdminAssignExecutor(a, o, executor_id) ==
  LET R(code) == Respond("assign_executor", code, o, a, executor_id)
  IN IF ~Exists(o) THEN Rollback /\ R(404)
     ELSE IF ~HasExecutorProfile(executor_id) THEN Rollback /\ R(404)
     ELSE Commit(assign_executor(DB, o, executor_id, a)) /\ R(200)

\* schedule_visit behind POST .../schedule-visit of admin and executor
ScheduleVisit(op, user, o, data) ==
  LET R(code) == Respond(op, code, o, user, data)
  IN IF ~Exists(o) THEN Rollback /\ R(404)
     ELSE IF ~HasExecutorProfile(data.executor_id) THEN Rollback /\ R(404)
     ELSE /\ Commit(schedule_visit(DB, o, data.executor_id, data.start_time,
                                   data.end_time, data.location))
          /\ R(200)

AdminScheduleVisit(a, o, data) == ScheduleVisit("admin_schedule_visit", a, o, data)

ExecutorScheduleVisit(e, o, data) ==
  ScheduleVisit("executor_schedule_visit", e, o,
                [data EXCEPT !.executor_id = e])

\* update_visit behind PATCH .../schedule-visit of admin and executor
UpdateVisit(op, user, o, data) ==
  LET R(code) == Respond(op, code, o, user, data)
      exec_id == IF data.executor_id # NoneStr THEN data.executor_id
                 ELSE LatestAssignmentExecutor(DB, o)
  IN IF ~Exists(o) THEN Rollback /\ R(404)
     ELSE IF data.executor_id # NoneStr
             /\ ~HasExecutorProfile(data.executor_id)
          THEN Rollback /\ R(404)
     ELSE IF exec_id = NoneStr THEN Rollback /\ R(400)
     ELSE IF Or(data.start_time, orders[o].planned_visit_at) = NoTime
          THEN Rollback /\ R(500)
     ELSE /\ Commit(update_visit(DB, o, exec_id, data.start_time,
                                 data.end_time, data.status))
          /\ R(200)

AdminUpdateVisit(a, o, data) == UpdateVisit("admin_update_visit", a, o, data)

ExecutorUpdateVisit(e, o, data) ==
  UpdateVisit("executor_update_visit", e, o, [data EXCEPT !.executor_id = e])

\* POST /admin/orders/{id}/send-for-revision
SendForRevision(a, o, comment) ==
  LET R(code) == Respond("send_for_revision", code, o, a, comment)
  IN IF ~Exists(o) THEN Rollback /\ R(404)
     ELSE Commit(admin_send_for_revision(DB, o, a, comment)) /\ R(200)

\* POST /admin/orders/{id}/approve
ApproveOrder(a, o, comment) ==
  LET R(code) == Respond("approve_order", code, o, a, comment)
  IN IF ~Exists(o) THEN Rollback /\ R(404)
     ELSE Commit(admin_approve_order(DB, o, a, comment)) /\ R(200)

\* POST /admin/orders/{id}/reject
RejectOrder(a, o, comment) ==
  LET R(code) == Respond("reject_order", code, o, a, comment)
  IN IF ~Exists(o) THEN Rollback /\ R(404)
     ELSE Commit(admin_reject_order(DB, o, a, comment)) /\ R(200)

\* POST /admin/orders/{id}/comment
AddComment(a, o, comment) ==
  LET R(code) == Respond("add_comment", code, o, a, comment)
  IN IF ~Exists(o) THEN Rollback /\ R(404)
     ELSE /\ Commit(add_status_history(DB, o, orders[o].status, a, comment))
          /\ R(200)

\* POST /executor/orders/{id}/take
TakeOrder(e, o) ==
  LET R(code) == Respond("take_order", code, o, e, <<>>)
  IN IF ~Exists(o) THEN Rollback /\ R(404)
     ELSE IF AssignmentsOf(DB, o, e) = {}
          THEN Commit(executor_take_order(DB, o, e, 0)) /\ R(200)
     ELSE \E found \in AssignmentsOf(DB, o, e) :
             Commit(executor_take_order(DB, o, e, found)) /\ R(200)

\* POST /executor/orders/{id}/decline
DeclineOrder(e, o) ==
  LET R(code) == Respond("decline_order", code, o, e, <<>>)
  IN IF ~Exists(o) THEN Rollback /\ R(404)
     ELSE IF AssignmentsOf(DB, o, e) = {} THEN Rollback /\ R(404)
     ELSE \E found \in AssignmentsOf(DB, o, e) :
             Commit(executor_decline_order(DB, o, e, found)) /\ R(200)

\* POST /executor/orders/{id}/plan/approve
ApprovePlan(e, o, comment) ==
  LET R(code) == Respond("approve_plan", code, o, e, comment)
  IN IF ~Exists(o) THEN Rollback /\ R(404)
     ELSE Commit(executor_approve_plan(DB, o, e, comment)) /\ R(200)

\* POST /executor/orders/{id}/plan/edit
EditPlan(e, o, plan, comment) ==
  LET arg == [plan |-> plan, comment |-> comment]
      R(code) == Respond("edit_plan", code, o, e, arg)
  IN IF ~Exists(o) THEN Rollback /\ R(404)
     ELSE Commit(executor_edit_plan(DB, o, e, plan, comment)) /\ R(200)

\* POST /executor/orders/{id}/plan/reject
RejectPlan(e, o, comment, issues) ==
  LET arg == [comment |-> comment, issues |-> issues]
      R(code) == Respond("reject_plan", code, o, e, arg)
  IN IF ~Exists(o) THEN Rollback /\ R(404)
     ELSE Commit(executor_reject_plan(DB, o, e, comment, issues)) /\ R(200)

\* add_plan_version on whichever row its lookup returns
SaveVersion(o, payload, created_by) ==
  IF VersionsOf(DB, o, payload.version_type) = {}
  THEN Commit(add_plan_version(DB, o, payload, created_by, 0))
  ELSE \E found \in VersionsOf(DB, o, payload.version_type) :
          Commit(add_plan_version(DB, o, payload, created_by, found))

\* POST /executor/orders/{id}/plan/save
ExecutorSavePlan(e, o, payload) ==
  LET R(code) == Respond("save_plan", code, o, e, payload)
  IN IF ~Exists(o) THEN Rollback /\ R(404)
     ELSE SaveVersion(o, payload, e) /\ R(200)

\* POST /client/orders/{id}/plan/changes
ClientSavePlan(c, o, payload) ==
  LET R(code) == Respond("save_plan", code, o, c, payload)
  IN IF ~Exists(o) THEN Rollback /\ R(404)
     ELSE IF orders[o].client_id # c THEN Rollback /\ R(403)
     ELSE SaveVersion(o, payload, c) /\ R(200)

\* POST /client/orders/{id}/files
UploadFile(c, o, f, filename) ==
  LET R(code) == Respond("upload_file", code, o, c, filename)
  IN IF ~Exists(o) THEN Rollback /\ R(404)
     ELSE IF orders[o].client_id # c THEN Rollback /\ R(403)
     ELSE /\ \A x \in files : x.id # f
          /\ Commit([DB EXCEPT
                       !.files = @ \cup {[id |-> f, order_id |-> o,
                                          filename |-> filename]}])
          /\ R(201)

FileOf(f) == {x \in files : x.id = f}

\* POST /client/orders/{id}/plan/parse-result
ParsePlanResult(c, o, f, plan) ==
  LET arg == [file_id |-> f, plan |-> plan]
      R(code) == Respond("parse_result", code, o, c, arg)
      payload == [version_type |-> "ORIGINAL", plan |-> plan,
                  comment |-> ParseComment]
  IN IF ~Exists(o) THEN Rollback /\ R(404)
     ELSE IF orders[o].client_id # c THEN Rollback /\ R(403)
     ELSE IF FileOf(f) = {} THEN Rollback /\ R(404)
     ELSE IF \E x \in FileOf(f) : x.order_id # o THEN Rollback /\ R(400)
     ELSE SaveVersion(o, payload, c) /\ R(200)

\* POST /client/orders/{id}/plan/recognize
RecognizePlan(c, o, f) ==
  LET R(code) == Respond("recognize", code, o, c, f)
      file == CHOOSE x \in FileOf(f) : TRUE
      plan == GetPlanByFilename(file.filename)
      IsOriginal(v) == Upper(v.version_type) = "ORIGINAL"
      has_original == SelectSeq(get_plan_versions(DB, o), IsOriginal) # <<>>
      payload == [version_type |-> IF has_original THEN "MODIFIED"
                                   ELSE "ORIGINAL",
                  plan |-> plan[1], comment |-> RecognizedComment]
  IN IF ~Exists(o) THEN Rollback /\ R(404)
     ELSE IF orders[o].client_id # c THEN Rollback /\ R(403)
     ELSE IF FileOf(f) = {} \/ file.order_id # o THEN Rollback /\ R(404)
     ELSE IF plan = <<>> THEN Rollback /\ R(422)
     ELSE SaveVersion(o, payload, c) /\ R(200)

\* ============================================================ specification
\* --------------------------------------------- requests running side by side
\* two requests in progress at a time, each with its own database session
Sessions == {"s1", "s2"}

\* a session: where its request stands, the order and the status it loaded,
\* what it is about to write, and the length of the history table when it
\* loaded (base) and after its commit (at)
NoSession ==
  [pc |-> "idle", o |-> NoneStr, status_value |-> NoneStr, user |-> NoneStr,
   loaded |-> NoneStr, base |-> 0, at |-> 0]

\* a variant whose UPDATE of the order is skipped when the row has been
\* written since it was loaded, and the history row with it
add_status_history_in_session_first_wins(db, o, loaded, status_value, user, comment) ==
  IF db.orders[o].status # loaded THEN db
  ELSE [db EXCEPT
          !.orders[o].status = status_value,
          !.history = Append(@, [order_id |-> o, status |-> status_value,
                                 changed_by_id |-> user,
                                 comment |-> comment])]

\* add_status_history on an order object loaded earlier in the session: the
\* flush updates the status column when the attribute differs from the loaded
\* value, and inserts the history row
add_status_history_in_session(db, o, loaded, status_value, user, comment) ==
  [db EXCEPT
     !.orders[o].status = IF status_value # loaded THEN status_value ELSE @,
     !.history = Append(@, [order_id |-> o, status |-> status_value,
                            changed_by_id |-> user, comment |-> comment])]

\* the handler loaded the order (order_service.get_order) and is about to
\* call add_status_history with status_value
BeginTransition(s, o, status_value, user) ==
  /\ sessions[s].pc # "loaded"
  /\ Exists(o)
  /\ sessions' = [sessions EXCEPT
                    ![s] = [pc |-> "loaded", o |-> o,
                            status_value |-> status_value, user |-> user,
                            loaded |-> orders[o].status,
                            base |-> Len(history), at |-> 0]]
  /\ UNCHANGED <<dbvars, last>>

\* db.commit() of add_status_history in that session
CommitTransition(s) ==
  LET r == sessions[s]
  IN /\ r.pc = "loaded"
     /\ Commit(add_status_history_in_session(DB, r.o, r.loaded,
                                             r.status_value, r.user,
                                             NoComment))
     /\ Respond("transition", 200, r.o, r.user, r.status_value)
     /\ sessions' = [sessions EXCEPT ![s].pc = "done",
                                     ![s].at = Len(history) + 1]

\* the handler loaded the order and add_plan_version has run its lookup of
\* (order, version_type): found is the row it returned, 0 for none
BeginSave(s, o, payload, created_by) ==
  /\ sessions[s].pc \notin {"loaded", "looked_up"}
  /\ Exists(o)
  /\ \E found \in IF VersionsOf(DB, o, payload.version_type) = {} THEN {0}
                  ELSE VersionsOf(DB, o, payload.version_type) :
        sessions' = [sessions EXCEPT
                       ![s] = [pc |-> "looked_up", o |-> o,
                               payload |-> payload, user |-> created_by,
                               found |-> found]]
  /\ UNCHANGED <<dbvars, last>>

\* the rest of add_plan_version in that session: the update of the row found
\* or the insert of a new row, and db.commit()
CommitSave(s) ==
  LET r == sessions[s]
  IN /\ r.pc = "looked_up"
     /\ Commit(add_plan_version(DB, r.o, r.payload, r.user, r.found))
     /\ Respond("save_plan", 200, r.o, r.user, r.payload)
     /\ sessions' = [sessions EXCEPT ![s].pc = "saved"]

\* ------------------------------------------------ the chat connection registry
WebSockets == {"w1", "w2", "w3"}

Chats == {"ch1", "ch2"}

\* the user behind a websocket
UserOf(websocket) == IF websocket = "w3" THEN "e1" ELSE "c1"

\* ConnectionManager.__init__: both maps empty; no websocket has been opened
\* and no broadcast is running
Coroutines == {"b1", "b2"}

NoBroadcast ==
  [pc |-> "idle", chat_id |-> NoneStr, exclude |-> NoneStr, snapshot |-> {},
   detached |-> FALSE, seen |-> {}, current |-> NoneStr,
   disconnected |-> {}]

ManagerInit ==
  /\ active_connections = [c \in {} |-> {}]
  /\ connection_info = [w \in {} |-> <<>>]
  /\ opened = {}
  /\ broadcasts = [b \in Coroutines |-> NoBroadcast]

Manager ==
  [active_connections |-> active_connections,
   connection_info |-> connection_info]

\* connect, after websocket.accept() has returned (lines 22-25)
connect(m, websocket, chat_id, user_id) ==
  LET ac == m.active_connections
      members == IF chat_id \in DOMAIN ac THEN ac[chat_id] ELSE {}
  IN [active_connections |->
        [c \in DOMAIN ac \cup {chat_id} |->
           IF c = chat_id THEN members \cup {websocket} ELSE ac[c]],
      connection_info |->
        [w \in DOMAIN m.connection_info \cup {websocket} |->
           IF w = websocket THEN <<user_id, chat_id>>
           ELSE m.connection_info[w]]]

\* disconnect (lines 27-35)
disconnect(m, websocket) ==
  IF websocket \notin DOMAIN m.connection_info THEN m
  ELSE LET ac == m.active_connections
           chat_id == m.connection_info[websocket][2]
           rest == IF chat_id \in DOMAIN ac
                   THEN ac[chat_id] \ {websocket} ELSE {}
       IN [active_connections |->
             IF chat_id \notin DOMAIN ac THEN ac
             ELSE IF rest = {} THEN [c \in DOMAIN ac \ {chat_id} |-> ac[c]]
             ELSE [ac EXCEPT ![chat_id] = rest],
           connection_info |->
             [w \in DOMAIN m.connection_info \ {websocket} |->
                m.connection_info[w]]]

\* lines 64-66 of broadcast_to_chat: disconnect for every failed connection
RECURSIVE disconnect_all(_, _)
disconnect_all(m, conns) ==
  IF conns = {} THEN m
  ELSE LET conn == CHOOSE w \in conns : TRUE
       IN disconnect_all(disconnect(m, conn), conns \ {conn})

\* the set object a broadcast iterates: the chat's set in the registry, or
\* the emptied set that disconnect deleted from the registry meanwhile
IteratedSet(m, r) ==
  IF r.detached \/ r.chat_id \notin DOMAIN m.active_connections THEN {}
  ELSE m.active_connections[r.chat_id]

\* the outcomes of the for statement asking its set iterator for the next
\* connection (lines 55-57), up to the next await or the end of the call.
\* A set whose size differs from the size at the start of the iteration
\* raises RuntimeError; a set of the same size that was changed yields any
\* connection not yet visited, or none; the end of the loop runs the removal
\* of the failed connections and returns.
IterationSteps(m, r) ==
  LET cur == IteratedSet(m, r)
      left == (cur \ r.seen) \ {r.exclude}
      done == [NoBroadcast EXCEPT !.chat_id = r.chat_id,
                                  !.disconnected = r.disconnected]
      raised == [m |-> m, r |-> [done EXCEPT !.pc = "raised"]]
      returned == [m |-> disconnect_all(m, r.disconnected),
                   r |-> [done EXCEPT !.pc = "returned"]]
      sending == {[m |-> m, r |-> [r EXCEPT !.pc = "sending",
                                            !.current = w,
                                            !.seen = @ \cup {w}]] :
                    w \in left}
  IN IF Cardinality(cur) # Cardinality(r.snapshot) THEN {raised}
     ELSE IF cur = r.snapshot
       THEN (IF left = {} THEN {returned} ELSE sending)
     ELSE sending \cup {returned}

\* one websocket connects to a chat once (websocket_chat.py, line 80)
Connect(websocket, chat_id) ==
  /\ websocket \notin opened
  /\ opened' = opened \cup {websocket}
  /\ LET m == connect(Manager, websocket, chat_id, UserOf(websocket))
     IN /\ active_connections' = m.active_connections
        /\ connection_info' = m.connection_info
  /\ UNCHANGED broadcasts

\* the endpoint's finally block (websocket_chat.py, line 164)
Disconnect(websocket) ==
  /\ websocket \in opened
  /\ LET m == disconnect(Manager, websocket)
     IN /\ active_connections' = m.active_connections
        /\ connection_info' = m.connection_info
        /\ broadcasts' =
             [b \in Coroutines |->
                IF /\ broadcasts[b].pc = "sending"
                   /\ broadcasts[b].chat_id \in DOMAIN active_connections
                   /\ broadcasts[b].chat_id \notin DOMAIN m.active_connections
                THEN [broadcasts[b] EXCEPT !.detached = TRUE]
                ELSE broadcasts[b]]
  /\ UNCHANGED opened

\* a step of broadcast b that ends in state x of IterationSteps; the removal
\* of the failed connections may delete a chat that another broadcast iterates
BroadcastStep(b, x) ==
  /\ active_connections' = x.m.active_connections
  /\ connection_info' = x.m.connection_info
  /\ broadcasts' =
       [c \in Coroutines |->
          IF c = b THEN x.r
          ELSE IF /\ broadcasts[c].pc = "sending"
                  /\ broadcasts[c].chat_id \in DOMAIN active_connections
                  /\ broadcasts[c].chat_id \notin DOMAIN x.m.active_connections
          THEN [broadcasts[c] EXCEPT !.detached = TRUE]
          ELSE broadcasts[c]]
  /\ UNCHANGED opened

\* broadcast_to_chat is called (lines 45-57), up to its first await
BroadcastStart(b, chat_id, exclude) ==
  /\ broadcasts[b].pc # "sending"
  /\ IF chat_id \notin DOMAIN active_connections
     THEN BroadcastStep(b, [m |-> Manager,
                            r |-> [NoBroadcast EXCEPT !.pc = "returned",
                                                      !.chat_id = chat_id]])
     ELSE \E x \in IterationSteps(
                      Manager,
                      [NoBroadcast EXCEPT
                         !.chat_id = chat_id, !.exclude = exclude,
                         !.snapshot = active_connections[chat_id]]) :
             BroadcastStep(b, x)

\* connection.send_json returns or raises (lines 58-61), and the loop goes on
BroadcastResume(b, sent) ==
  /\ broadcasts[b].pc = "sending"
  /\ LET r == broadcasts[b]
         r1 == IF sent THEN r
               ELSE [r EXCEPT !.disconnected = @ \cup {r.current}]
     IN \E x \in IterationSteps(Manager, r1) : BroadcastStep(b, x)

NoRequest ==
  [op |-> "none", code |-> 0, o |-> NoneStr, user |-> NoneStr, arg |-> <<>>]

InitDB ==
  /\ orders = <<>>
  /\ history = <<>>
  /\ assignments = <<>>
  /\ versions = <<>>
  /\ events = <<>>
  /\ files = {}
  /\ last = NoRequest
  /\ sessions = [s \in Sessions |-> NoSession]
  /\ ManagerInit

Init ==
  /\ InitDB
  /\ plan_in = PlanA
  /\ plan_out = <<>>
  /\ diff_in = <<PlanA, PlanB>>
  /\ diff_out = <<>>

\* requests that drive the order through its lifecycle
Transition(o) ==
  \/ \E data \in {p \in CreatePayloads : p.district_code = NoneStr} :
        CreateOrder("c1", o, data)
  \/ \E c \in Clients, data \in {p \in UpdatePayloads : p.title = NoneStr} :
        ClientUpdateOrder(c, o, data)
  \/ \E a \in Admins, data \in AdminUpdatePayloads :
        AdminUpdateOrder(a, o, data)
  \/ \E a \in Admins, x \in Executors : AdminAssignExecutor(a, o, x)
  \/ \E a \in Admins, data \in VisitPayloads : AdminScheduleVisit(a, o, data)
  \/ \E data \in {p \in VisitPayloads : p.executor_id = "e1"} :
        ExecutorScheduleVisit("e1", o, data)
  \/ \E a \in Admins, data \in VisitUpdatePayloads :
        AdminUpdateVisit(a, o, data)
  \/ \E data \in {p \in VisitUpdatePayloads : p.status \in OrderStatus} :
        ExecutorUpdateVisit("e1", o, data)
  \/ \E a \in Admins : SendForRevision(a, o, UserComment)
  \/ \E a \in Admins : ApproveOrder(a, o, NoComment)
  \/ \E a \in Admins : RejectOrder(a, o, UserComment)
  \/ \E a \in Admins : AddComment(a, o, UserComment)
  \/ \E e \in Executors : TakeOrder(e, o)
  \/ \E e \in Executors : DeclineOrder(e, o)
  \/ ApprovePlan("e1", o, NoComment)
  \/ EditPlan("e1", o, PlanB, UserComment)
  \/ \E i \in {x \in IssueLists : x # <<>>} :
        RejectPlan("e1", o, UserComment, i)

Next ==
  /\ UNCHANGED <<splitvars, diffvars, sessvars, wsvars>>
  /\ \E o \in OrderIds : Transition(o)

Spec == Init /\ [][Next]_vars

\* requests that store plan versions
PlanRequest(o) ==
  \/ \E data \in {p \in CreatePayloads : p.district_code = NoneStr} :
        CreateOrder("c1", o, data)
  \/ \E p \in SavePayloads : ExecutorSavePlan("e1", o, p)
  \/ \E c \in Clients, p \in SavePayloads : ClientSavePlan(c, o, p)
  \/ \E f \in FileIds, n \in Filenames : UploadFile("c1", o, f, n)
  \/ \E c \in Clients, f \in FileIds, p \in PlanDocs :
        ParsePlanResult(c, o, f, p)
  \/ \E f \in FileIds : RecognizePlan("c1", o, f)
  \/ \E c \in OptionalComments : ApprovePlan("e1", o, c)
  \/ \E p \in PlanDocs : EditPlan("e1", o, p, UserComment)

NextPlans ==
  /\ UNCHANGED <<splitvars, diffvars, sessvars, wsvars>>
  /\ \E o \in OrderIds : PlanRequest(o)

SpecPlans == Init /\ [][NextPlans]_vars


\* ================================================ requests that may stop
\* A request that commits more than once may end after any of its commits
\* (the connection is lost, the worker is killed): the database then holds
\* what was committed so far and the caller gets a server error.
Interrupted(op, o, user, arg, commits) ==
  \E k \in 1..Len(commits) :
     /\ Commit(commits[k])
     /\ Respond(op, IF k = Len(commits) THEN 200 ELSE 500, o, user, arg)

TakeOrderPartial(e, o) ==
  LET R(code) == Respond("take_order", code, o, e, <<>>)
  IN IF ~Exists(o) THEN Rollback /\ R(404)
     ELSE \E found \in IF AssignmentsOf(DB, o, e) = {} THEN {0}
                        ELSE AssignmentsOf(DB, o, e) :
             Interrupted("take_order", o, e, <<>>,
                         executor_take_order_commits(DB, o, e, found))

ScheduleVisitPartial(a, o, data) ==
  LET R(code) == Respond("admin_schedule_visit", code, o, a, data)
  IN IF ~Exists(o) THEN Rollback /\ R(404)
     ELSE IF ~HasExecutorProfile(data.executor_id) THEN Rollback /\ R(404)
     ELSE Interrupted("admin_schedule_visit", o, a, data,
                      schedule_visit_commits(DB, o, data.executor_id,
                                             data.start_time, data.end_time,
                                             data.location))

UpdateVisitPartial(a, o, data) ==
  LET R(code) == Respond("admin_update_visit", code, o, a, data)
      exec_id == IF data.executor_id # NoneStr THEN data.executor_id
                 ELSE LatestAssignmentExecutor(DB, o)
  IN IF ~Exists(o) THEN Rollback /\ R(404)
     ELSE IF data.executor_id # NoneStr
             /\ ~HasExecutorProfile(data.executor_id)
          THEN Rollback /\ R(404)
     ELSE IF exec_id = NoneStr THEN Rollback /\ R(400)
     ELSE IF Or(data.start_time, orders[o].planned_visit_at) = NoTime
          THEN Rollback /\ R(500)
     ELSE Interrupted("admin_update_visit", o, a, data,
                      update_visit_commits(DB, o, exec_id, data.start_time,
                                           data.end_time, data.status))

AdminUpdateOrderPartial(a, o, data) ==
  LET R(code) == Respond("admin_update", code, o, a, data)
  IN IF ~Exists(o) THEN Rollback /\ R(404)
     ELSE Interrupted("admin_update", o, a, data,
                      admin_update_commits(DB, o, a, data))

\* an admin update that carries a status together with other fields
AdminClosePayloads ==
  {[status |-> "COMPLETED", current_department_code |-> "dep2",
    estimated_price |-> NoPrice, total_price |-> 900,
    planned_visit_at |-> NoTime, completed_at |-> 2]}

CommitRequest(o) ==
  \/ \E data \in {p \in CreatePayloads : p.district_code = NoneStr} :
        CreateOrder("c1", o, data)
  \/ \E a \in Admins : AdminAssignExecutor(a, o, "e1")
  \/ \E e \in Executors : TakeOrderPartial(e, o)
  \/ \E e \in Executors : DeclineOrder(e, o)
  \/ \E a \in Admins, data \in {p \in VisitPayloads : p.executor_id = "e1"} :
        ScheduleVisitPartial(a, o, data)
  \/ \E a \in Admins, data \in VisitUpdatePayloads :
        UpdateVisitPartial(a, o, data)
  \/ \E a \in Admins, data \in AdminUpdatePayloads \cup AdminClosePayloads :
        AdminUpdateOrderPartial(a, o, data)
  \/ \E a \in Admins : AddComment(a, o, UserComment)
  \/ EditPlan("e1", o, PlanB, UserComment)

NextCommits ==
  /\ UNCHANGED <<splitvars, diffvars, sessvars, wsvars>>
  /\ \E o \in OrderIds : CommitRequest(o)

SpecCommits == Init /\ [][NextCommits]_vars

\* =============================================== reads of the assignment
\* get_admin_order_details, lines 191-211: the executor of the row with the
\* latest assigned_at, whatever its status; NoneStr without any row
get_admin_order_details(db, o) ==
  LET OfOrder(a) == a.order_id = o
      rows == SelectSeq(db.assignments, OfOrder)
  IN IF rows = <<>> THEN NoneStr ELSE Last(rows).executor_id

\* GET /admin/orders/{id}
AdminGetOrder(a, o) ==
  /\ Rollback
  /\ IF ~Exists(o) THEN Respond("admin_get_order", 404, o, a, NoneStr)
     ELSE Respond("admin_get_order", 200, o, a, get_admin_order_details(DB, o))

\* GET /executor/orders/{id}, lines 86-96: order.assignments[0]; the
\* relationship has no order_by, so any of the order's rows can come first
ExecutorGetOrder(e, o) ==
  LET rows == {i \in 1..Len(assignments) : assignments[i].order_id = o}
  IN /\ Rollback
     /\ IF ~Exists(o) THEN Respond("executor_get_order", 404, o, e, NoneStr)
        ELSE IF rows = {} THEN Respond("executor_get_order", 200, o, e, NoneStr)
        ELSE \E i \in rows :
                Respond("executor_get_order", 200, o, e,
                        assignments[i].executor_id)

AssignmentRequest(o) ==
  \/ \E data \in {p \in CreatePayloads : p.district_code = NoneStr} :
        CreateOrder("c1", o, data)
  \/ \E a \in Admins, x \in Executors : AdminAssignExecutor(a, o, x)
  \/ \E e \in Executors : TakeOrder(e, o)
  \/ \E e \in Executors : DeclineOrder(e, o)
  \/ \E a \in Admins : AdminGetOrder(a, o)
  \/ \E e \in Executors : ExecutorGetOrder(e, o)
  \/ \E a \in Admins,
        data \in {p \in VisitUpdatePayloads : p.executor_id = NoneStr} :
        AdminUpdateVisit(a, o, data)

NextAssign ==
  /\ UNCHANGED <<splitvars, diffvars, sessvars, wsvars>>
  /\ \E o \in OrderIds : AssignmentRequest(o)

SpecAssign == Init /\ [][NextAssign]_vars

\* ===================================================== approval of a plan
ApproveRequest(o) ==
  \/ \E data \in {p \in CreatePayloads : p.district_code = NoneStr} :
        CreateOrder("c1", o, data)
  \/ \E p \in SavePayloads : ExecutorSavePlan("e1", o, p)
  \/ \E p \in PlanDocs : EditPlan("e1", o, p, NoComment)
  \/ \E e \in Executors, c \in OptionalComments : ApprovePlan(e, o, c)

NextApprove ==
  /\ UNCHANGED <<splitvars, diffvars, sessvars, wsvars>>
  /\ \E o \in OrderIds : ApproveRequest(o)

SpecApprove == Init /\ [][NextApprove]_vars

\* ======================================== transitions running side by side
\* the targets of the racing transitions; SUBMITTED is the status an order
\* has after its creation
RaceStatuses == {"SUBMITTED", "COMPLETED", "REJECTED"}

NextRace ==
  /\ UNCHANGED <<splitvars, diffvars, wsvars>>
  /\ \E o \in OrderIds :
       \/ /\ \E data \in {p \in CreatePayloads : p.district_code = NoneStr} :
                CreateOrder("c1", o, data)
          /\ UNCHANGED sessvars
       \/ \E s \in Sessions, t \in RaceStatuses, u \in {"a1", "e1"} :
             BeginTransition(s, o, t, u)
       \/ \E s \in Sessions : sessions[s].o = o /\ CommitTransition(s)

SpecRace == Init /\ [][NextRace]_vars

\* ============================================== saves running side by side
NextSaves ==
  /\ UNCHANGED <<splitvars, diffvars, wsvars>>
  /\ \E o \in OrderIds :
       \/ /\ \E data \in {p \in CreatePayloads : p.district_code = NoneStr} :
                CreateOrder("c1", o, data)
          /\ UNCHANGED sessvars
       \/ \E s \in Sessions, p \in SavePayloads : BeginSave(s, o, p, "e1")
       \/ \E s \in Sessions : sessions[s].o = o /\ CommitSave(s)

SpecSaves == Init /\ [][NextSaves]_vars

\* ================================================ the chat registry in use
NextManager ==
  /\ UNCHANGED <<dbvars, last, splitvars, diffvars, sessvars>>
  /\ \/ \E w \in WebSockets, c \in Chats : Connect(w, c)
     \/ \E w \in WebSockets : Disconnect(w)
     \/ \E b \in Coroutines, c \in Chats, w \in {"w1", NoneStr} :
           BroadcastStart(b, c, w)
     \/ \E b \in Coroutines, sent \in BOOLEAN : BroadcastResume(b, sent)

SpecManager == Init /\ [][NextManager]_vars

\* ================================================= reads of plan versions
\* the version query parameter: absent, or a type in either case
RequestedVersions == {NoneStr, "original", "EXECUTOR_EDITED", "final"}

\* the body of a plan response: nothing, or the type and plan of one version
NoVersion(version) == [version |-> version, returned |-> <<>>]

Returned(version, v, plan) ==
  [version |-> version,
   returned |-> <<[version_type |-> v.version_type, plan |-> plan]>>]

\* _apply_split_to_plan_version: the plan of the response is the split plan
apply_split_to_plan_version(v) == SplitWallSegments(v.plan)

\* next((v for v in versions if v.version_type.lower() == version.lower()))
MatchLower(vs, version) ==
  LET Same(v) == Lower(v.version_type) = Lower(version)
  IN SelectSeq(vs, Same)

\* next((v for v in versions if v.version_type.upper() == version.upper()))
MatchUpper(vs, version) ==
  LET Same(v) == Upper(v.version_type) = Upper(version)
  IN SelectSeq(vs, Same)

\* GET /client/orders/{id}/plan: a version that is not matched falls through
\* to the latest version
ClientGetPlan(c, o, version) ==
  LET R(code, body) == Respond("client_get_plan", code, o, c, body)
      vs == get_plan_versions(DB, o)
      match == MatchLower(vs, version)
  IN /\ Rollback
     /\ IF ~Exists(o) THEN R(404, NoVersion(version))
        ELSE IF orders[o].client_id # c THEN R(403, NoVersion(version))
        ELSE IF version # NoneStr /\ match # <<>>
          THEN R(200, Returned(version, Head(match),
                               apply_split_to_plan_version(Head(match))))
        ELSE IF vs = <<>> THEN R(404, NoVersion(version))
        ELSE R(200, Returned(version, Last(vs),
                             apply_split_to_plan_version(Last(vs))))

\* the selection shared by the 2D view and the export: no versions is 404,
\* a version that is not matched is 404, no version asked is the latest
SelectVersion(vs, version) ==
  IF vs = <<>> THEN <<>>
  ELSE IF version # NoneStr
    THEN (IF MatchUpper(vs, version) # <<>>
          THEN <<Head(MatchUpper(vs, version))>> ELSE <<>>)
  ELSE <<Last(vs)>>

\* GET /client/orders/{id}/plan/2d
ClientGetPlan2D(c, o, version) ==
  LET R(code, body) == Respond("client_get_plan_2d", code, o, c, body)
      sel == SelectVersion(get_plan_versions(DB, o), version)
  IN /\ Rollback
     /\ IF ~Exists(o) THEN R(404, NoVersion(version))
        ELSE IF orders[o].client_id # c THEN R(403, NoVersion(version))
        ELSE IF sel = <<>> THEN R(404, NoVersion(version))
        ELSE R(200, Returned(version, sel[1],
                             apply_split_to_plan_version(sel[1])))

\* GET /client/orders/{id}/plan/export
ClientExportPlan(c, o, version) ==
  LET R(code, body) == Respond("client_export_plan", code, o, c, body)
      sel == SelectVersion(get_plan_versions(DB, o), version)
  IN /\ Rollback
     /\ IF ~Exists(o) THEN R(404, NoVersion(version))
        ELSE IF orders[o].client_id # c THEN R(403, NoVersion(version))
        ELSE IF sel = <<>> THEN R(404, NoVersion(version))
        ELSE R(200, Returned(version, sel[1],
                             apply_split_to_plan_version(sel[1])))

\* GET /executor/orders/{id}/plan: the stored plan, not split
ExecutorGetPlan(e, o, version) ==
  LET R(code, body) == Respond("executor_get_plan", code, o, e, body)
      vs == get_plan_versions(DB, o)
      match == MatchUpper(vs, version)
  IN /\ Rollback
     /\ IF ~Exists(o) THEN R(404, NoVersion(version))
        ELSE IF version # NoneStr
          THEN (IF match # <<>>
                THEN R(200, Returned(version, Head(match), Head(match).plan))
                ELSE R(404, NoVersion(version)))
        ELSE IF vs = <<>> THEN R(404, NoVersion(version))
        ELSE R(200, Returned(version, Last(vs), Last(vs).plan))

\* GET /executor/orders/{id}/plan/2d
ExecutorGetPlan2D(e, o, version) ==
  LET R(code, body) == Respond("executor_get_plan_2d", code, o, e, body)
      sel == SelectVersion(get_plan_versions(DB, o), version)
  IN /\ Rollback
     /\ IF ~Exists(o) THEN R(404, NoVersion(version))
        ELSE IF sel = <<>> THEN R(404, NoVersion(version))
        ELSE R(200, Returned(version, sel[1], sel[1].plan))

\* GET /executor/orders/{id}/plan/export
ExecutorExportPlan(e, o, version) ==
  LET R(code, body) == Respond("executor_export_plan", code, o, e, body)
      sel == SelectVersion(get_plan_versions(DB, o), version)
  IN /\ Rollback
     /\ IF ~Exists(o) THEN R(404, NoVersion(version))
        ELSE IF sel = <<>> THEN R(404, NoVersion(version))
        ELSE R(200, Returned(version, sel[1], sel[1].plan))

\* ------------------------------------------ before/after, diff, AI analysis
\* the rows of vs, by position, whose upper-cased type is in types
RowsOfTypes(vs, types) ==
  {i \in 1..Len(vs) : Upper(vs[i].version_type) \in types}

\* the body of one side of a response: nothing, or a version's type and plan
Side(vs, rows, plan) ==
  IF rows = {} THEN <<>>
  ELSE LET i == CHOOSE i \in rows : TRUE
       IN <<[version_type |-> vs[i].version_type, plan |-> plan]>>

FirstOf(rows) == {i \in rows : \A k \in rows : i <= k}

LastOf(rows) == {i \in rows : \A k \in rows : k <= i}

\* GET /client/orders/{id}/plan/before-after: the loop keeps the last row of
\* each kind, and the plans of the response are split
ClientPlanBeforeAfter(c, o) ==
  LET R(code, body) == Respond("client_before_after", code, o, c, body)
      vs == get_plan_versions(DB, o)
      original == LastOf(RowsOfTypes(vs, {"ORIGINAL"}))
      modified == LastOf(RowsOfTypes(vs, {"MODIFIED", "EXECUTOR_EDITED"}))
      Split(rows) ==
        IF rows = {} THEN <<>>
        ELSE apply_split_to_plan_version(vs[CHOOSE i \in rows : TRUE])
      none == [original |-> <<>>, modified |-> <<>>]
  IN /\ Rollback
     /\ IF ~Exists(o) THEN R(404, none)
        ELSE IF orders[o].client_id # c THEN R(403, none)
        ELSE IF vs = <<>> THEN R(404, none)
        ELSE R(200, [original |-> Side(vs, original, Split(original)),
                     modified |-> Side(vs, modified, Split(modified))])

\* the rows the diff handlers compare: a named version is the first row that
\* matches ignoring case; no name is ORIGINAL for the original and, for the
\* modified, the first MODIFIED or EXECUTOR_EDITED row, else the last row
DiffOriginal(vs, original_version) ==
  FirstOf(RowsOfTypes(vs, {Upper(IF original_version # NoneStr
                                 THEN original_version ELSE "ORIGINAL")}))

DiffModified(vs, modified_version) ==
  IF modified_version # NoneStr
  THEN FirstOf(RowsOfTypes(vs, {Upper(modified_version)}))
  ELSE IF RowsOfTypes(vs, {"MODIFIED", "EXECUTOR_EDITED"}) # {}
    THEN FirstOf(RowsOfTypes(vs, {"MODIFIED", "EXECUTOR_EDITED"}))
  ELSE IF vs # <<>> THEN {Len(vs)} ELSE {}

\* the body of GET /client/orders/{id}/plan/diff: both versions are split
\* before they are compared; when both are the same row it is split twice
client_plan_diff(vs, original_version, modified_version) ==
  LET original == DiffOriginal(vs, original_version)
      modified == DiffModified(vs, modified_version)
      Row(rows) == vs[CHOOSE i \in rows : TRUE]
      original_plan == apply_split_to_plan_version(Row(original))
      modified_plan ==
        IF modified = original
        THEN SplitWallSegments(original_plan)
        ELSE apply_split_to_plan_version(Row(modified))
  IN [original_version |-> original_version,
      modified_version |-> modified_version,
      original |-> Side(vs, original,
                        IF original = {} THEN <<>> ELSE original_plan),
      modified |-> Side(vs, modified,
                        IF modified = {} THEN <<>> ELSE modified_plan),
      changes |->
        IF original # {} /\ modified # {}
        THEN <<calculate_plan_diff(
                 IF modified = original THEN modified_plan
                 ELSE original_plan, modified_plan)>>
        ELSE <<>>]

\* the body of GET /executor/orders/{id}/plan/diff: the stored plans
executor_plan_diff(vs, original_version, modified_version) ==
  LET original == DiffOriginal(vs, original_version)
      modified == DiffModified(vs, modified_version)
      Row(rows) == vs[CHOOSE i \in rows : TRUE]
  IN [original_version |-> original_version,
      modified_version |-> modified_version,
      original |-> Side(vs, original,
                        IF original = {} THEN <<>> ELSE Row(original).plan),
      modified |-> Side(vs, modified,
                        IF modified = {} THEN <<>> ELSE Row(modified).plan),
      changes |->
        IF original # {} /\ modified # {}
        THEN <<calculate_plan_diff(Row(original).plan, Row(modified).plan)>>
        ELSE <<>>]

\* GET /client/orders/{id}/plan/diff
ClientPlanDiff(c, o, original_version, modified_version) ==
  LET R(code, body) == Respond("client_plan_diff", code, o, c, body)
      vs == get_plan_versions(DB, o)
      none == [original_version |-> original_version,
               modified_version |-> modified_version,
               original |-> <<>>, modified |-> <<>>, changes |-> <<>>]
  IN /\ Rollback
     /\ IF ~Exists(o) THEN R(404, none)
        ELSE IF orders[o].client_id # c THEN R(403, none)
        ELSE IF vs = <<>> THEN R(404, none)
        ELSE R(200, client_plan_diff(vs, original_version, modified_version))

\* GET /executor/orders/{id}/plan/diff
ExecutorPlanDiff(e, o, original_version, modified_version) ==
  LET R(code, body) == Respond("executor_plan_diff", code, o, e, body)
      vs == get_plan_versions(DB, o)
      none == [original_version |-> original_version,
               modified_version |-> modified_version,
               original |-> <<>>, modified |-> <<>>, changes |-> <<>>]
  IN /\ Rollback
     /\ IF ~Exists(o) THEN R(404, none)
        ELSE IF vs = <<>> THEN R(404, none)
        ELSE R(200, executor_plan_diff(vs, original_version,
                                       modified_version))

\* _derive_decision_status: the decisions an analysis can come to
AiDecisions == {"ALLOWED", "FORBIDDEN"}

\* the position in the versions table of the order's latest version, 0 for none
LatestVersionRow(db, o) ==
  LET rows == {i \in 1..Len(db.versions) : db.versions[i].order_id = o}
  IN IF rows = {} THEN 0 ELSE CHOOSE i \in rows : \A k \in rows : k <= i

\* _get_latest_plan_data: the split plan is assigned to the plan attribute of
\* the latest version, which the session holds
get_latest_plan_data(db, o) ==
  IF LatestVersionRow(db, o) = 0 THEN db
  ELSE [db EXCEPT
          !.versions[LatestVersionRow(db, o)].plan = SplitWallSegments(@)]

\* _build_ai_analysis: what the session holds when the analysis is built;
\* without a plan the decision is the stored one, or UNKNOWN
build_ai_analysis(db, o, decision) ==
  LET has_plan == LatestVersionRow(db, o) # 0
      stored == db.orders[o].ai_decision_status
      stored_summary == db.orders[o].ai_decision_summary
  IN [get_latest_plan_data(db, o) EXCEPT
        !.orders[o].ai_decision_status =
           IF has_plan THEN decision
           ELSE IF stored # NoneStr THEN stored ELSE "UNKNOWN",
        !.orders[o].ai_decision_summary =
           IF has_plan THEN "summary"
           ELSE IF stored_summary # NoneStr THEN stored_summary
           ELSE "Plan data not available for analysis"]

AiBody(db, o) ==
  [decisionStatus |-> db.orders[o].ai_decision_status,
   summary |-> db.orders[o].ai_decision_summary]

\* POST /client/orders/{id}/ai/analyze: persist=True commits the session, the
\* version the split plan was assigned to included; generated says whether
\* the call of the language model returned
TriggerAiAnalyze(c, o, decision, generated) ==
  LET R(code, body) == Respond("ai_analyze", code, o, c, body)
      NoAnalysis == [decisionStatus |-> NoneStr, summary |-> NoneStr]
  IN IF ~Exists(o) THEN Rollback /\ R(404, NoAnalysis)
     ELSE IF orders[o].client_id # c THEN Rollback /\ R(403, NoAnalysis)
     ELSE IF LatestVersionRow(DB, o) # 0 /\ ~generated
       THEN Rollback /\ R(500, NoAnalysis)
     ELSE /\ Commit(build_ai_analysis(DB, o, decision))
          /\ R(200, AiBody(build_ai_analysis(DB, o, decision), o))

\* GET /client/orders/{id}/ai/analysis: persist=False, nothing is committed
GetAiAnalysis(c, o, decision, generated) ==
  LET R(code, body) == Respond("ai_analysis", code, o, c, body)
      NoAnalysis == [decisionStatus |-> NoneStr, summary |-> NoneStr]
  IN /\ Rollback
     /\ IF ~Exists(o) THEN R(404, NoAnalysis)
        ELSE IF orders[o].client_id # c THEN R(403, NoAnalysis)
        ELSE IF LatestVersionRow(DB, o) # 0 /\ ~generated
          THEN R(500, NoAnalysis)
        ELSE R(200, AiBody(build_ai_analysis(DB, o, decision), o))

\* the version names the diff requests carry
DiffVersions == {NoneStr, "original", "EXECUTOR_EDITED"}


ReadRequest(o) ==
  \/ \E data \in {p \in CreatePayloads : p.district_code = NoneStr} :
        CreateOrder("c1", o, data)
  \/ \E p \in SavePayloads : ExecutorSavePlan("e1", o, p)
  \/ \E p \in SavePayloads : ClientSavePlan("c1", o, p)
  \/ \E c \in Clients, t \in RequestedVersions : ClientGetPlan(c, o, t)
  \/ \E c \in Clients, t \in RequestedVersions : ClientGetPlan2D(c, o, t)
  \/ \E c \in Clients, t \in RequestedVersions : ClientExportPlan(c, o, t)
  \/ \E t \in RequestedVersions : ExecutorGetPlan("e1", o, t)
  \/ \E t \in RequestedVersions : ExecutorGetPlan2D("e1", o, t)
  \/ \E t \in RequestedVersions : ExecutorExportPlan("e1", o, t)
  \/ \E c \in Clients : ClientPlanBeforeAfter(c, o)
  \/ \E c \in Clients, a \in DiffVersions, b \in DiffVersions :
        ClientPlanDiff(c, o, a, b)
  \/ \E a \in DiffVersions, b \in DiffVersions :
        ExecutorPlanDiff("e1", o, a, b)
  \/ \E c \in Clients, d \in AiDecisions, g \in BOOLEAN :
        TriggerAiAnalyze(c, o, d, g)
  \/ \E c \in Clients, d \in AiDecisions, g \in BOOLEAN :
        GetAiAnalysis(c, o, d, g)

NextReads ==
  /\ UNCHANGED <<splitvars, diffvars, sessvars, wsvars>>
  /\ \E o \in OrderIds : ReadRequest(o)

SpecReads == Init /\ [][NextReads]_vars

\* ================================= saves and reads of a type in either case
\* versionType is any string: the same type in upper and in lower case
CasePayloads ==
  {[version_type |-> "ORIGINAL", plan |-> PlanA, comment |-> NoComment],
   [version_type |-> "ORIGINAL", plan |-> PlanB, comment |-> NoComment],
   [version_type |-> "original", plan |-> PlanA, comment |-> NoComment],
   [version_type |-> "original", plan |-> PlanB, comment |-> NoComment],
   [version_type |-> "FINAL", plan |-> PlanB, comment |-> NoComment]}

NextCase ==
  /\ UNCHANGED <<splitvars, diffvars, sessvars, wsvars>>
  /\ \E o \in OrderIds :
       \/ \E data \in {p \in CreatePayloads : p.district_code = NoneStr} :
             CreateOrder("c1", o, data)
       \/ \E p \in CasePayloads : ExecutorSavePlan("e1", o, p)
       \/ \E t \in {"ORIGINAL", "original", "final"} :
             ExecutorGetPlan("e1", o, t)

SpecCase == Init /\ [][NextCase]_vars

\* ---------------------------------------------------------------------------
\* C25: the read-only plan operations (get-plan, 2D view, before/after, diff,
\* export, AI analysis fetch and AI analysis trigger) leave the stored plan
\* document of every version as it was: the split plan is only ever part of
\* the response.
PlanReadOps ==
  {"client_get_plan", "client_get_plan_2d", "client_before_after",
   "client_plan_diff", "client_export_plan", "ai_analysis", "ai_analyze"}

C25_ReadsLeavePlansStored ==
  [][last'.op \in PlanReadOps => versions' = versions]_vars

\* what does hold: every read but the AI analysis trigger leaves the versions
\* table as it was
C25_HoldsExceptAiAnalyze ==
  [][last'.op \in PlanReadOps \ {"ai_analyze"} => versions' = versions]_vars

\* an AI analysis trigger has answered 200 and the latest stored plan is a
\* split plan that no save wrote
C25_SplitPlanStored ==
  /\ last.op = "ai_analyze"
  /\ last.code = 200
  /\ \E i \in 1..Len(versions) :
        /\ versions[i].plan \notin PlanDocs
        /\ versions[i].plan \in {SplitWallSegments(p) : p \in PlanDocs}

\* ===================================================== the splitter's inputs
MaxOpenings == 2

MaxMeters == 4

MaxElements == 2

\* sequences over S of length 0..n
RECURSIVE SeqsUpTo(_, _)
SeqsUpTo(S, n) ==
  IF n = 0 THEN {<<>>}
  ELSE LET shorter == SeqsUpTo(S, n - 1)
       IN shorter \cup {Append(q, x) : q \in shorter, x \in S}

OpeningChoices == {Opening(f, t) : f \in 0..MaxMeters, t \in 0..MaxMeters}

\* one wall of 4 px with every list of up to MaxOpenings openings, given in
\* any order, overlapping or not, inside the wall or beyond its end
SingleWallPlans ==
  {Plan(<<>>,
        <<Element("w1", "wall", "EXISTING",
                  WallGeometry("segment", <<0, 0, 4, 0>>, Openings(ops)))>>) :
     ops \in SeqsUpTo(OpeningChoices, MaxOpenings)}

\* the same with a scale, on a vertical wall, and on the 10 m wall at 100 px
\* per metre, with the shorter opening lists
ScaledWallPlans ==
  {Plan(v[1],
        <<Element("w1", "wall", "EXISTING",
                  WallGeometry("segment", v[2], Openings(ops)))>>) :
     v \in {<<Scale(2, 0), <<0, 0, 4, 0>>>>,
            <<<<>>, <<2, 4, 2, 0>>>>,
            <<Scale(100, 0), <<0, 0, 1000, 0>>>>},
     ops \in SeqsUpTo(OpeningChoices, MaxOpenings - 1)}

Zone ==
  Element("z1", "zone", "EXISTING",
          WallGeometry("polygon", <<0, 0, 4, 0, 4, 4>>, NoOpenings))

Door ==
  Element("d1", "door", "NEW",
          WallGeometry("segment", <<1, 0, 2, 0>>, Openings(<<Opening(0, 1)>>)))

WallNoOpenings ==
  Element("wn", "wall", "EXISTING",
          WallGeometry("segment", <<0, 0, 4, 0>>, NoOpenings))

WallEmptyOpenings ==
  Element("we", "wall", "EXISTING",
          WallGeometry("segment", <<0, 0, 4, 0>>, Openings(<<>>)))

WallPolygon ==
  Element("wp", "wall", "EXISTING",
          WallGeometry("polygon", <<0, 0, 4, 0>>, Openings(<<Opening(1, 2)>>)))

WallSixPoints ==
  Element("w6", "wall", "EXISTING",
          WallGeometry("segment", <<0, 0, 4, 0, 4, 4>>,
                       Openings(<<Opening(1, 2)>>)))

WallZeroLength ==
  Element("w0", "wall", "EXISTING",
          WallGeometry("segment", <<1, 1, 1, 1>>, Openings(<<Opening(0, 1)>>)))

WallSplit ==
  Element("ws", "wall", "EXISTING",
          WallGeometry("segment", <<0, 0, 4, 0>>, Openings(<<Opening(1, 2)>>)))

WallCovered ==
  Element("wc", "wall", "EXISTING",
          WallGeometry("segment", <<0, 0, 4, 0>>, Openings(<<Opening(0, 4)>>)))

ElementPool ==
  {Zone, Door, WallNoOpenings, WallEmptyOpenings, WallPolygon, WallSixPoints,
   WallZeroLength, WallSplit, WallCovered}

\* openings with from_m <= to_m that may start before the wall or end beyond it
OutsideOpeningChoices ==
  {op \in {Opening(f, t) : f \in -1..MaxMeters, t \in 0..(MaxMeters + 1)} :
     op.from_m <= op.to_m}

\* the 4 px wall with every list of up to MaxOpenings such openings
OutsideWallPlans ==
  {Plan(<<>>,
        <<Element("w1", "wall", "EXISTING",
                  WallGeometry("segment", <<0, 0, 4, 0>>, Openings(ops)))>>) :
     ops \in SeqsUpTo(OutsideOpeningChoices, MaxOpenings)}

MixedPlans ==
  {Plan(scale, elements) :
     scale \in {<<>>, Scale(-1, 0), Scale(0, 2)},
     elements \in SeqsUpTo(ElementPool, MaxElements)}

SplitInputs == SingleWallPlans \cup ScaledWallPlans \cup MixedPlans

\* a read of a plan: the splitter is applied to the plan document
ApplySplit ==
  /\ plan_out = <<>>
  /\ plan_out' = <<SplitWallSegments(plan_in)>>
  /\ UNCHANGED <<dbvars, last, plan_in, diffvars, sessvars, wsvars>>

\* the second application of parse_plan_result: the splitter is applied to
\* the plan it returned
ApplySplitAgain ==
  /\ Len(plan_out) = 1
  /\ plan_out' = Append(plan_out, SplitWallSegments(plan_out[1]))
  /\ UNCHANGED <<dbvars, last, plan_in, diffvars, sessvars, wsvars>>

InitSplit ==
  /\ InitDB
  /\ plan_in \in SplitInputs \/ plan_in \in OutsideWallPlans
  /\ plan_out = <<>>
  /\ diff_in = <<PlanA, PlanB>>
  /\ diff_out = <<>>

NextSplit == ApplySplit \/ ApplySplitAgain

SpecSplit == InitSplit /\ [][NextSplit]_vars


\* ========================================================= the diff's inputs
\* WallA1 with another thickness
WallThick == [WallA1 EXCEPT !.thickness = 30]

\* Zone with a room type
ZoneKitchen == [Zone EXCEPT !.zoneType = "kitchen"]

DiffPool == {WallA1, WallB1, WallThick, WallA2, WallB3, Zone, ZoneKitchen}

\* plans of up to MaxElements elements, ids repeated or not
DiffPlans == {Plan(<<>>, elements) : elements \in SeqsUpTo(DiffPool, MaxElements)}

\* GET .../plan/diff computes the changes of one pair of plans; the pair is
\* diffed in both directions
ApplyDiff ==
  /\ diff_out = <<>>
  /\ diff_out' = <<[ab |-> calculate_plan_diff(diff_in[1], diff_in[2]),
                    ba |-> calculate_plan_diff(diff_in[2], diff_in[1])]>>
  /\ UNCHANGED <<dbvars, last, splitvars, diff_in, sessvars, wsvars>>

InitDiff ==
  /\ InitDB
  /\ plan_in = PlanA
  /\ plan_out = <<>>
  /\ diff_in \in DiffPlans \X DiffPlans
  /\ diff_out = <<>>

NextDiff == ApplyDiff

SpecDiff == InitDiff /\ [][NextDiff]_vars

\* ================================================================== claims
HistoryOf(o) == SelectSeq(history, LAMBDA h : h.order_id = o)

VersionsOfType(vs, o, t) ==
  {i \in 1..Len(vs) : vs[i].order_id = o /\ vs[i].version_type = t}

\* C1: after every transition operation the order's status equals the status
\* of its most recent history entry.
C1_StatusEqualsLatestHistory ==
  \A o \in DOMAIN orders :
     /\ HistoryOf(o) # <<>>
     /\ orders[o].status = Last(HistoryOf(o)).status

C1_Witness ==
  /\ last.op = "executor_update_visit"
  /\ last.code = 200
  /\ last.arg.status = "DOCUMENTS_IN_PROGRESS"
  /\ orders[last.o].status = "DOCUMENTS_IN_PROGRESS"
  /\ Len(HistoryOf(last.o)) >= 2

\* C2: for every order and version type T at most one stored plan version has
\* type T, after any sequence of operations that store plan versions.
C2_AtMostOneVersionPerType ==
  \A i, j \in 1..Len(versions) :
     (/\ versions[i].order_id = versions[j].order_id
      /\ versions[i].version_type = versions[j].version_type) => i = j

\* C3: a second saveVersion with the same (order, version type, document) as
\* the saveVersion before it leaves exactly one stored version of that type,
\* and that version holds the document.
C3_ResaveLeavesOneVersion ==
  [][(/\ last.op = "save_plan" /\ last.code = 200
      /\ last'.op = "save_plan" /\ last'.code = 200
      /\ last'.o = last.o
      /\ last'.arg.version_type = last.arg.version_type
      /\ last'.arg.plan = last.arg.plan)
     => LET rows == VersionsOfType(versions', last'.o,
                                   last'.arg.version_type)
        IN /\ Cardinality(rows) = 1
           /\ \A i \in rows : versions'[i].plan = last'.arg.plan]_vars

\* C4: the owner's update of an order succeeds iff the status is DRAFT or
\* SUBMITTED; otherwise it is rejected with a precondition error and nothing
\* changes; a successful update changes neither the status nor the history.
C4_ClientUpdateGuard ==
  [][(/\ last'.op = "client_update"
      /\ last'.o \in DOMAIN orders
      /\ orders[last'.o].client_id = last'.user)
     => LET o == last'.o
        IN /\ (last'.code = 200) <=> (orders[o].status \in {"DRAFT", "SUBMITTED"})
           /\ last'.code # 200 => (last'.code = 400 /\ UNCHANGED dbvars)
           /\ last'.code = 200 =>
                (orders'[o].status = orders[o].status /\ history' = history)]_vars

C4_Witness ==
  /\ last.op = "client_update"
  /\ last.code = 400
  /\ last.user = orders[last.o].client_id
  /\ orders[last.o].status = "COMPLETED"

\* C5: after create-order the order is SUBMITTED with exactly one history
\* entry (SUBMITTED, by the client); assigning executor E right after makes
\* it EXECUTOR_ASSIGNED with exactly one assignment row (E, ASSIGNED) and
\* exactly two history entries.
C5_CreateThenAssign ==
  [][/\ last'.op = "create_order" =>
          /\ orders'[last'.o].status = "SUBMITTED"
          /\ SelectSeq(history', LAMBDA h : h.order_id = last'.o)
               = <<[order_id |-> last'.o, status |-> "SUBMITTED",
                    changed_by_id |-> last'.user, comment |-> NoComment]>>
     /\ (/\ last.op = "create_order"
         /\ last'.op = "assign_executor" /\ last'.code = 200
         /\ last'.o = last.o) =>
          /\ orders'[last'.o].status = "EXECUTOR_ASSIGNED"
          /\ LET rows == SelectSeq(assignments',
                                   LAMBDA a : a.order_id = last'.o)
             IN /\ Len(rows) = 1
                /\ rows[1].executor_id = last'.arg
                /\ rows[1].status = "ASSIGNED"
          /\ Len(SelectSeq(history', LAMBDA h : h.order_id = last'.o)) = 2]_vars

C5_Witness ==
  /\ last.op = "assign_executor"
  /\ last.code = 200
  /\ Len(HistoryOf(last.o)) = 2
  /\ Len(assignments) = 1
  /\ orders[last.o].title = "Kitchen remodel"

\* C6: a decline by an executor who has no assignment row on the order fails
\* with not-found and leaves status, history and assignments unchanged.
C6_DeclineWithoutAssignment ==
  [][(/\ last'.op = "decline_order"
      /\ last'.o \in DOMAIN orders
      /\ \A i \in 1..Len(assignments) :
            ~(/\ assignments[i].order_id = last'.o
              /\ assignments[i].executor_id = last'.user))
     => /\ last'.code = 404
        /\ UNCHANGED <<orders, history, assignments>>]_vars

C6_Witness ==
  /\ last.op = "decline_order"
  /\ last.code = 404
  /\ last.o \in DOMAIN orders
  /\ Len(assignments) = 1

\* C7: executor edit-plan with plan P and comment c stores an EXECUTOR_EDITED
\* version holding P with is_applied = false, sets the status to
\* AWAITING_CLIENT_APPROVAL and appends a history entry by the executor whose
\* comment contains c.
C7_EditPlanEffects ==
  (last.op = "edit_plan" /\ last.code = 200) =>
     /\ versions # <<>>
     /\ Last(versions).order_id = last.o
     /\ Last(versions).version_type = "EXECUTOR_EDITED"
     /\ Last(versions).plan = last.arg.plan
     /\ Last(versions).is_applied = FALSE
     /\ orders[last.o].status = "AWAITING_CLIENT_APPROVAL"
     /\ Last(HistoryOf(last.o)).changed_by_id = last.user
     /\ Last(HistoryOf(last.o)).status = "AWAITING_CLIENT_APPROVAL"
     /\ Contains(Last(HistoryOf(last.o)).comment, last.arg.comment)

C7_Witness ==
  /\ last.op = "edit_plan"
  /\ last.code = 200
  /\ last.arg.comment = UserComment
  /\ Len(versions) >= 1

\* C8: neither admin approve-order nor an admin direct update with
\* status = COMPLETED and no completed_at changes completed_at: the status
\* becomes COMPLETED and a null completed_at stays null.
C8_CompletedAtUntouched ==
  [][(\/ (last'.op = "approve_order" /\ last'.code = 200)
      \/ (/\ last'.op = "admin_update" /\ last'.code = 200
          /\ last'.arg.status = "COMPLETED"
          /\ last'.arg.completed_at = NoTime))
     => /\ orders'[last'.o].status = "COMPLETED"
        /\ orders'[last'.o].completed_at = orders[last'.o].completed_at]_vars

C8_Witness ==
  /\ last.op \in {"approve_order", "admin_update"}
  /\ last.code = 200
  /\ orders[last.o].status = "COMPLETED"
  /\ orders[last.o].completed_at = NoTime

\* ------------------------------------------------ the splitter's claims
SegLengthPx(points) == Abs(points[3] - points[1]) + Abs(points[4] - points[2])

RECURSIVE SumLengthsPx(_)
SumLengthsPx(elements) ==
  IF elements = <<>> THEN 0
  ELSE SegLengthPx(Head(elements).geometry.points) + SumLengthsPx(Tail(elements))

RECURSIVE SumSpans(_)
SumSpans(ops) ==
  IF ops = <<>> THEN 0
  ELSE (Head(ops).to_m - Head(ops).from_m) + SumSpans(Tail(ops))

\* the scale the specification gives: px_per_meter, 1 if absent or <= 0
SpecPxPerMeter(plan) ==
  IF plan.meta.scale = <<>> THEN 1
  ELSE IF plan.meta.scale[1].px_per_meter <= 0 THEN 1
  ELSE plan.meta.scale[1].px_per_meter

\* the plan is one segment wall of L > 0 metres with N >= 1 openings that
\* lie inside the wall and do not overlap
OneWallWithDisjointOpenings(plan) ==
  /\ Len(plan.elements) = 1
  /\ plan.elements[1].type = "wall"
  /\ plan.elements[1].geometry.kind = "segment"
  /\ Len(plan.elements[1].geometry.points) = 4
  /\ ~plan.elements[1].geometry.openings.none
  /\ plan.meta.scale # <<>> => plan.meta.scale[1].px_per_meter > 0
  /\ LET ops == plan.elements[1].geometry.openings.items
         lpx == SegLengthPx(plan.elements[1].geometry.points)
         L == lpx \div SpecPxPerMeter(plan)
     IN /\ Len(ops) >= 1
        /\ lpx > 0
        /\ \A i \in 1..Len(ops) :
              0 <= ops[i].from_m /\ ops[i].from_m <= ops[i].to_m
                                 /\ ops[i].to_m <= L
        /\ \A i, j \in 1..Len(ops) :
              i < j => \/ ops[i].to_m <= ops[j].from_m
                       \/ ops[j].to_m <= ops[i].from_m

\* the maximal uncovered gaps of [0, L]: an uncovered metre cell starts a gap
\* when it is the first cell or an opening's span ends where it starts
GapStarts(ops, L) ==
  {c \in 0..(L - 1) :
     /\ ~\E i \in 1..Len(ops) : ops[i].from_m <= c /\ c + 1 <= ops[i].to_m
     /\ \/ c = 0
        \/ \E i \in 1..Len(ops) : ops[i].from_m <= c /\ c <= ops[i].to_m}

\* C9: for a segment wall of L metres with N >= 1 non-overlapping openings
\* covering C metres, the elements the splitter returns for the wall have
\* total length L - C and are as many as the maximal uncovered gaps (0..N+1).
C9_SplitCompleteness ==
  (plan_out # <<>> /\ OneWallWithDisjointOpenings(plan_in)) =>
     LET ops == plan_in.elements[1].geometry.openings.items
         ppm == SpecPxPerMeter(plan_in)
         L == SegLengthPx(plan_in.elements[1].geometry.points) \div ppm
         out == plan_out[1].elements
     IN /\ SumLengthsPx(out) = (L - SumSpans(ops)) * ppm
        /\ Len(out) = Cardinality(GapStarts(ops, L))

\* what C9 states wherever the openings leave some part of the wall uncovered
C9_HoldsWhenAGapExists ==
  (/\ plan_out # <<>>
   /\ OneWallWithDisjointOpenings(plan_in)
   /\ GapStarts(plan_in.elements[1].geometry.openings.items,
                SegLengthPx(plan_in.elements[1].geometry.points)
                  \div SpecPxPerMeter(plan_in)) # {})
     => C9_SplitCompleteness

\* the elements the claim says are returned unchanged
ReturnedUnchanged(elem) ==
  \/ elem.type # "wall"
  \/ elem.geometry.openings.none
  \/ elem.geometry.openings.items = <<>>
  \/ elem.geometry.kind # "segment"
  \/ Len(elem.geometry.points) # 4
  \/ SegLengthPx(elem.geometry.points) = 0

\* out is in, or a sub-segment derived from in
ComesFrom(out, in) ==
  \/ out = in
  \/ \E k \in 1..(MaxOpenings + 1) : out.id = in.id \o "_seg" \o ToString(k)

\* C10: every non-wall element and every wall with empty or missing openings,
\* non-segment geometry, a point list of length other than 4 or zero pixel
\* length is returned unchanged, at its position among the other elements.
C10_PassThroughInPlace ==
  plan_out # <<>> =>
     LET in == plan_in.elements
         out == plan_out[1].elements
     IN \A i \in 1..Len(in) :
          ReturnedUnchanged(in[i]) =>
             \E k \in 1..Len(out) :
                /\ out[k] = in[i]
                /\ \A m \in 1..(k - 1) :
                      \E j \in 1..(i - 1) : ComesFrom(out[m], in[j])
                /\ \A m \in (k + 1)..Len(out) :
                      \E j \in (i + 1)..Len(in) : ComesFrom(out[m], in[j])

C10_Witness ==
  /\ plan_out # <<>>
  /\ plan_in.elements = <<WallSplit, WallEmptyOpenings>>
  /\ Len(plan_out[1].elements) = 3
  /\ plan_out[1].elements[3] = WallEmptyOpenings

\* ------------------------------------------------------ the diff's claims
IdsOf(plan) == {plan.elements[i].id : i \in 1..Len(plan.elements)}

Range(q) == {q[i] : i \in 1..Len(q)}

NoRepeats(q) == \A i, j \in 1..Len(q) : q[i] = q[j] => i = j

UniqueIds(plan) ==
  \A i, j \in 1..Len(plan.elements) :
     plan.elements[i].id = plan.elements[j].id => i = j

\* C11: diff(A, B).added = diff(B, A).deleted and diff(A, B).deleted =
\* diff(B, A).added, as lists, for any two plans, ids repeated or not.
C11_DiffSymmetry ==
  diff_out # <<>> =>
     /\ diff_out[1].ab.added = diff_out[1].ba.deleted
     /\ diff_out[1].ab.deleted = diff_out[1].ba.added

C11_Witness ==
  /\ diff_out # <<>>
  /\ diff_in[1].elements = <<WallA2, WallA2>>
  /\ diff_in[2].elements = <<WallB3, WallA1>>
  /\ diff_out[1].ab.added = <<"w3", "w1">>
  /\ diff_out[1].ab.deleted = <<"w2">>

\* C12: deleted is exactly the ids only in the original, added exactly the
\* ids only in the modified plan, modified exactly the ids in both whose
\* geometry, role or zoneType differ (an id names one element of a plan);
\* the three are pairwise disjoint and list no id twice, and an element that
\* differs only in thickness is in none of them.
C12_DiffContents ==
  diff_out # <<>> =>
     LET A == diff_in[1]
         B == diff_in[2]
         d == diff_out[1].ab
         ElemOf(plan, id) ==
           CHOOSE e \in Range(plan.elements) : e.id = id
     IN /\ Range(d.deleted) = IdsOf(A) \ IdsOf(B)
        /\ Range(d.added) = IdsOf(B) \ IdsOf(A)
        /\ NoRepeats(d.deleted) /\ NoRepeats(d.added)
        /\ d.modified \subseteq IdsOf(A) \cap IdsOf(B)
        /\ Range(d.deleted) \cap Range(d.added) = {}
        /\ (UniqueIds(A) /\ UniqueIds(B)) =>
              d.modified =
                {id \in IdsOf(A) \cap IdsOf(B) :
                   \/ ElemOf(A, id).geometry # ElemOf(B, id).geometry
                   \/ ElemOf(A, id).role # ElemOf(B, id).role
                   \/ ElemOf(A, id).zoneType # ElemOf(B, id).zoneType}

\* the plans of Scenario 4: {w1, w2} against {w1 with another geometry, w3}
C12_Witness ==
  /\ diff_out # <<>>
  /\ diff_in[1].elements = <<WallA1, WallA2>>
  /\ diff_in[2].elements = <<WallB1, WallB3>>
  /\ diff_out[1].ab =
       [deleted |-> <<"w2">>, added |-> <<"w3">>, modified |-> {"w1"}]

\* ------------------------------------------------------------- atomicity
\* C13: between any two committed database states, also those a request
\* leaves when it stops between two of its commits, a changed status comes
\* with a new history entry of that status, and a new history entry comes
\* with the order holding its status; history is only appended to.
C13_StatusAndHistoryTogether ==
  [][\A o \in DOMAIN orders' :
        LET h == SelectSeq(history, LAMBDA x : x.order_id = o)
            hn == SelectSeq(history', LAMBDA x : x.order_id = o)
            before == IF o \in DOMAIN orders THEN orders[o].status
                      ELSE NoneStr
        IN /\ Len(hn) >= Len(h)
           /\ SubSeq(hn, 1, Len(h)) = h
           /\ orders'[o].status # before =>
                 (Len(hn) > Len(h) /\ Last(hn).status = orders'[o].status)
           /\ Len(hn) > Len(h) => Last(hn).status = orders'[o].status]_vars

\* schedule-visit stopped after its first commit: status and history are
\* there, the calendar event is not
C13_Witness ==
  /\ last.op = "admin_schedule_visit"
  /\ last.code = 500
  /\ orders[last.o].status = "VISIT_SCHEDULED"
  /\ Last(HistoryOf(last.o)).status = "VISIT_SCHEDULED"
  /\ events = <<>>

\* ------------------------------------------------------ saving a version
\* what a saveVersion request with payload arg by user leaves of versions vs:
\* the row of the type overwritten in place with the carried values when
\* KeepAbsent is FALSE; with KeepAbsent an absent comment leaves the stored
\* comment alone
SavedOver(vs, vn, o, arg, user, KeepAbsent) ==
  LET rows == VersionsOfType(vs, o, arg.version_type)
  IN IF rows = {}
     THEN vn = Append(vs, [order_id |-> o,
                           version_type |-> arg.version_type,
                           plan |-> arg.plan, is_applied |-> TRUE,
                           comment |-> arg.comment, created_by_id |-> user])
     ELSE /\ Len(vn) = Len(vs)
          /\ \E i \in rows :
                /\ vn[i] = [vs[i] EXCEPT
                              !.plan = arg.plan,
                              !.comment = IF KeepAbsent /\ arg.comment = NoComment
                                          THEN @ ELSE arg.comment,
                              !.created_by_id = user]
                /\ \A j \in 1..Len(vs) : j # i => vn[j] = vs[j]

\* C14: saveVersion for an (order, type) that has a row overwrites the row's
\* plan, comment and creator with the values of the call, present or absent,
\* in place; with no row it appends a new row with is_applied = true.
C14_SaveOverwritesInPlace ==
  [][(last'.op = "save_plan" /\ last'.code = 200) =>
        SavedOver(versions, versions', last'.o, last'.arg, last'.user, FALSE)]_vars

\* what holds of the code: as C14, except that a call without a comment
\* leaves the stored comment as it was
C14_HoldsKeepingAbsentComment ==
  [][(last'.op = "save_plan" /\ last'.code = 200) =>
        SavedOver(versions, versions', last'.o, last'.arg, last'.user, TRUE)]_vars

\* ------------------------------------------------------------ completion
\* C15: in every reachable state an order with a non-null completed_at has
\* reached the status COMPLETED (it holds it, or its history records it).
C15_CompletedAtOnlyWhenCompleted ==
  \A o \in DOMAIN orders :
     orders[o].completed_at # NoTime =>
        \/ orders[o].status = "COMPLETED"
        \/ \E i \in 1..Len(history) :
              history[i].order_id = o /\ history[i].status = "COMPLETED"

\* ------------------------------------------------------ current executor
\* the executor of the most recently assigned row of the order that is not
\* DECLINED; NoneStr when there is none
ActiveExecutor(o) ==
  LET rows == SelectSeq(assignments,
                        LAMBDA a : a.order_id = o /\ a.status # "DECLINED")
  IN IF rows = <<>> THEN NoneStr ELSE Last(rows).executor_id

\* C16: the executor that admin order details and executor order details
\* report, and that update-visit uses when the request names none, is the
\* executor of the most recently assigned assignment that is not DECLINED.
C16_CurrentExecutorIsActive ==
  /\ (last.op \in {"admin_get_order", "executor_get_order"} /\ last.code = 200)
        => last.arg = ActiveExecutor(last.o)
  /\ (last.op = "admin_update_visit" /\ last.code = 200)
        => Last(events).executor_id = ActiveExecutor(last.o)

\* what holds of the code for admin details and update-visit: the executor
\* of the most recently assigned row, declined or not
C16_HoldsForLatestRow ==
  (last.code = 200 /\ last.op \in {"admin_get_order", "admin_update_visit"}) =>
     LET rows == SelectSeq(assignments, LAMBDA a : a.order_id = last.o)
         latest == IF rows = <<>> THEN NoneStr ELSE Last(rows).executor_id
     IN IF last.op = "admin_get_order" THEN last.arg = latest
        ELSE Last(events).executor_id = latest

\* ----------------------------------------------------------------- draft
\* C17: no sequence of API operations leaves an order with status DRAFT.
C17_NeverDraft ==
  \A o \in DOMAIN orders : orders[o].status # "DRAFT"

\* ------------------------------------------------------- unmatched type
PlanReads ==
  {"client_get_plan", "client_get_plan_2d", "client_export_plan",
   "executor_get_plan", "executor_get_plan_2d", "executor_export_plan"}

\* the caller may read the order and asked for a type that no stored version
\* of the order has, whatever the case of the letters
AskedForAbsentType ==
  /\ last.op \in PlanReads
  /\ last.code # 403
  /\ last.arg.version # NoneStr
  /\ \A i \in 1..Len(versions) :
        versions[i].order_id = last.o
          => Upper(versions[i].version_type) # Upper(last.arg.version)

\* C18: a plan version requested by a type that no stored version of the
\* order matches, case-insensitively, is answered with not-found by every
\* retrieval operation; no version of another type is returned.
C18_UnmatchedTypeIsNotFound ==
  AskedForAbsentType => last.code = 404 /\ last.arg.returned = <<>>

\* every retrieval but the client's get-plan answers the absent type with 404
C18_HoldsExceptClientGetPlan ==
  AskedForAbsentType /\ last.op # "client_get_plan"
    => last.code = 404 /\ last.arg.returned = <<>>

\* ------------------------------------------------- the uncovered intervals
\* the plan is one axis-parallel segment wall of L > 0 whole metres with at
\* least one opening, each opening with from_m <= to_m
OneWallWithOpenings(plan) ==
  /\ Len(plan.elements) = 1
  /\ plan.elements[1].type = "wall"
  /\ plan.elements[1].geometry.kind = "segment"
  /\ Len(plan.elements[1].geometry.points) = 4
  /\ ~plan.elements[1].geometry.openings.none
  /\ plan.meta.scale # <<>> => plan.meta.scale[1].px_per_meter > 0
  /\ LET ops == plan.elements[1].geometry.openings.items
         pts == plan.elements[1].geometry.points
     IN /\ Len(ops) >= 1
        /\ pts[1] = pts[3] \/ pts[2] = pts[4]
        /\ SegLengthPx(pts) >= SpecPxPerMeter(plan)
        /\ SegLengthPx(pts) % SpecPxPerMeter(plan) = 0
        /\ \A i \in 1..Len(ops) : ops[i].from_m <= ops[i].to_m

Clamp(x, L) == IF x < 0 THEN 0 ELSE IF x > L THEN L ELSE x

\* the point p of the wall lies in the clamped span of some opening
PointCovered(ops, L, p) ==
  \E i \in 1..Len(ops) :
     Clamp(ops[i].from_m, L) <= p /\ p <= Clamp(ops[i].to_m, L)

\* the metre cell from c to c + 1 lies in the clamped span of some opening
CellCovered(ops, L, c) ==
  \E i \in 1..Len(ops) :
     Clamp(ops[i].from_m, L) <= c /\ c + 1 <= Clamp(ops[i].to_m, L)

\* no point strictly between a and b is covered
Uncovered(ops, L, a, b) ==
  /\ \A c \in a..(b - 1) : ~CellCovered(ops, L, c)
  /\ \A p \in (a + 1)..(b - 1) : ~PointCovered(ops, L, p)

\* the maximal intervals of positive length of [0, L] that are not covered
MaximalUncovered(ops, L) ==
  {g \in (0..L) \X (0..L) :
     /\ g[1] < g[2]
     /\ Uncovered(ops, L, g[1], g[2])
     /\ g[1] = 0 \/ ~Uncovered(ops, L, g[1] - 1, g[2])
     /\ g[2] = L \/ ~Uncovered(ops, L, g[1], g[2] + 1)}

\* the point of the wall at m metres from its start
AlongWall(pts, ppm, m) ==
  LET Sign(d) == IF d > 0 THEN 1 ELSE IF d < 0 THEN -1 ELSE 0
  IN <<pts[1] + Sign(pts[3] - pts[1]) * m * ppm,
       pts[2] + Sign(pts[4] - pts[2]) * m * ppm>>

\* out is the list of the uncovered intervals of the wall, left to right,
\* the k-th with id {id}_seg{k}, its end points on the wall and no openings
IsSplitOf(out, plan) ==
  LET wall == plan.elements[1]
      ops == wall.geometry.openings.items
      pts == wall.geometry.points
      ppm == SpecPxPerMeter(plan)
      L == SegLengthPx(pts) \div ppm
      gaps == MaximalUncovered(ops, L)
  IN /\ Len(out) = Cardinality(gaps)
     /\ \A k \in 1..Len(out) :
          \E g \in gaps :
             /\ Cardinality({h \in gaps : h[1] < g[1]}) = k - 1
             /\ out[k].id = wall.id \o "_seg" \o ToString(k)
             /\ out[k].type = "wall"
             /\ out[k].geometry.kind = "segment"
             /\ out[k].geometry.points =
                  AlongWall(pts, ppm, g[1]) \o AlongWall(pts, ppm, g[2])
             /\ out[k].geometry.openings = NoOpenings

\* C19: for a segment wall whose openings come in any order, may overlap and
\* may start or end outside the wall, the elements the splitter returns for
\* the wall are exactly the maximal positive-length intervals of [0, L] not
\* covered by a clamped opening, left to right, the k-th with id
\* {id}_seg{k} counted from 1, and none of them has openings.
C19_SplitIsTheUncoveredIntervals ==
  (plan_out # <<>> /\ OneWallWithOpenings(plan_in))
     => IsSplitOf(plan_out[1].elements, plan_in)

\* what C19 states wherever some part of the wall is left uncovered
C19_HoldsWhenAGapExists ==
  (/\ plan_out # <<>>
   /\ OneWallWithOpenings(plan_in)
   /\ MaximalUncovered(plan_in.elements[1].geometry.openings.items,
                       SegLengthPx(plan_in.elements[1].geometry.points)
                         \div SpecPxPerMeter(plan_in)) # {})
     => IsSplitOf(plan_out[1].elements, plan_in)

\* openings out of order, one starting before the wall: two sub-segments
C19_GapCase ==
  /\ plan_out # <<>>
  /\ OneWallWithOpenings(plan_in)
  /\ plan_in.elements[1].geometry.openings.items
       = <<Opening(2, 3), Opening(-1, 1)>>
  /\ Len(plan_out[1].elements) = 2

EventsOf(es, o) == LET OfOrder(ev) == ev.order_id = o IN SelectSeq(es, OfOrder)

VisitScheduled(o) ==
  \E i \in 1..Len(history) :
     history[i].order_id = o /\ history[i].status = "VISIT_SCHEDULED"

UpdateVisitDone ==
  /\ last'.op \in {"admin_update_visit", "executor_update_visit"}
  /\ last'.code = 200

\* C22: update-visit changes the calendar event of the order's visit and adds
\* none: after schedule-visit and any number of update-visit calls the order
\* has exactly one calendar event, with the start and end of the latest
\* update.
C22_UpdateVisitKeepsOneEvent ==
  [][(UpdateVisitDone /\ VisitScheduled(last'.o)
        /\ Len(EventsOf(events, last'.o)) = 1)
     => /\ Len(EventsOf(events', last'.o)) = 1
        /\ last'.arg.start_time # NoTime =>
             EventsOf(events', last'.o)[1].start_time = last'.arg.start_time
        /\ last'.arg.end_time # NoTime =>
             EventsOf(events', last'.o)[1].end_time = last'.arg.end_time]_vars

\* what update-visit does instead: it appends one event carrying the times of
\* the update and leaves the events there were as they are
C22_HoldsAsAppend ==
  [][UpdateVisitDone
     => /\ Len(events') = Len(events) + 1
        /\ SubSeq(events', 1, Len(events)) = events
        /\ Last(events').order_id = last'.o
        /\ last'.arg.start_time # NoTime =>
             Last(events').start_time = last'.arg.start_time
        /\ last'.arg.end_time # NoTime =>
             Last(events').end_time = last'.arg.end_time]_vars

\* ------------------------------------------- transitions side by side
\* both sessions have committed a transition of the same order, and each of
\* them had loaded the order before the other committed
RanConcurrently ==
  /\ sessions["s1"].pc = "done" /\ sessions["s2"].pc = "done"
  /\ sessions["s1"].o = sessions["s2"].o
  /\ sessions["s1"].base < sessions["s2"].at
  /\ sessions["s2"].base < sessions["s1"].at

\* the history row that session s inserted
RowOf(s) == history[sessions[s].at]

PrunedOnReturn ==
  \A b \in Coroutines :
     broadcasts[b].pc = "returned" =>
        \A w \in broadcasts[b].disconnected :
           /\ w \notin DOMAIN connection_info
           /\ \A c \in DOMAIN active_connections : w \notin active_connections[c]

\* a websocket is in connection_info exactly when it is a member of the set
\* of its chat, and no chat is mapped to the empty set
RegistryConsistent ==
  /\ \A w \in DOMAIN connection_info :
        /\ connection_info[w][2] \in DOMAIN active_connections
        /\ w \in active_connections[connection_info[w][2]]
  /\ \A c \in DOMAIN active_connections :
        /\ active_connections[c] # {}
        /\ \A w \in active_connections[c] :
              /\ w \in DOMAIN connection_info
              /\ connection_info[w][2] = c

\* while a broadcast is inside its loop, the set it iterates is as it was
\* when the loop began
IterationUndisturbed ==
  \A b \in Coroutines :
     broadcasts[b].pc = "sending" =>
        IteratedSet(Manager, broadcasts[b]) = broadcasts[b].snapshot

\* C24: under any interleaving of connect, disconnect and broadcast_to_chat,
\* a returned broadcast has removed every connection whose send failed, a
\* websocket is in connection_info iff it is in the set of its chat with no
\* chat mapped to an empty set, and a broadcast never iterates a chat's set
\* while another coroutine adds to it or removes from it.
C24_RegistryUnderInterleaving ==
  /\ PrunedOnReturn
  /\ RegistryConsistent
  /\ IterationUndisturbed

\* the first two parts of C24 hold in every state
C24_HoldsForTheMaps == PrunedOnReturn /\ RegistryConsistent

\* a broadcast ended with RuntimeError and left a connection that failed
\* during it in the registry
C24_RaisedWithoutPruning ==
  \E b \in Coroutines :
     /\ broadcasts[b].pc = "raised"
     /\ \E w \in broadcasts[b].disconnected : w \in DOMAIN connection_info

\* ---------------------------------------------------------------------------
\* C29: for the same order and the same pair of plan versions the client
\* diff and the executor diff report the same deleted, added and modified
\* element ids, and every reported id is the id of an element of the stored
\* plan documents.
ReportedIds(body) ==
  IF body.changes = <<>>
  THEN [deleted |-> {}, added |-> {}, modified |-> {}]
  ELSE [deleted |-> Range(body.changes[1].deleted),
        added |-> Range(body.changes[1].added),
        modified |-> body.changes[1].modified]

StoredIds(o) ==
  LET vs == get_plan_versions(DB, o)
  IN UNION {IdsOf(vs[i].plan) : i \in 1..Len(vs)}

AllStored(ids, o) ==
  ids.deleted \cup ids.added \cup ids.modified \subseteq StoredIds(o)

C29_DiffsAgree ==
  LET vs == get_plan_versions(DB, last.o)
      a == last.arg.original_version
      b == last.arg.modified_version
  IN /\ (last.op = "client_plan_diff" /\ last.code = 200) =>
          /\ ReportedIds(last.arg) = ReportedIds(executor_plan_diff(vs, a, b))
          /\ AllStored(ReportedIds(last.arg), last.o)
     /\ (last.op = "executor_plan_diff" /\ last.code = 200) =>
          /\ ReportedIds(last.arg) = ReportedIds(client_plan_diff(vs, a, b))
          /\ AllStored(ReportedIds(last.arg), last.o)

\* what does hold: the executor diff reports ids of the stored plans only,
\* and the client diff is the diff of the split plans
C29_HoldsForStoredAndSplit ==
  LET vs == get_plan_versions(DB, last.o)
      a == last.arg.original_version
      b == last.arg.modified_version
      o == DiffOriginal(vs, a)
      m == DiffModified(vs, b)
      Row(rows) == vs[CHOOSE i \in rows : TRUE]
  IN /\ (last.op = "executor_plan_diff" /\ last.code = 200) =>
          AllStored(ReportedIds(last.arg), last.o)
     /\ (last.op = "client_plan_diff" /\ last.code = 200
         /\ last.arg.changes # <<>>) =>
          last.arg.changes[1] =
            calculate_plan_diff(SplitWallSegments(Row(o).plan),
                                SplitWallSegments(Row(m).plan))

\* a client diff of two stored versions reports the id of a wall segment
C29_SegmentIdReported ==
  /\ last.op = "client_plan_diff"
  /\ last.code = 200
  /\ "w1_seg1" \in ReportedIds(last.arg).deleted
  /\ "w1_seg1" \notin StoredIds(last.o)

\* ---------------------------------------------------------------------------
\* C26: every successful status-transition operation (assign, take, decline,
\* schedule visit, approve/edit/reject plan, admin send-for-revision, approve,
\* reject, comment) appends exactly one history entry: the history of the
\* order grows by exactly 1, whatever the prior state of the order and of its
\* assignments.
TransitionOps ==
  {"assign_executor", "take_order", "decline_order", "admin_schedule_visit",
   "executor_schedule_visit", "approve_plan", "edit_plan", "reject_plan",
   "send_for_revision", "approve_order", "reject_order", "add_comment"}

EntriesOf(h, o) == LET OfOrder(x) == x.order_id = o IN SelectSeq(h, OfOrder)

GrowsByOne(ops) ==
  (last'.op \in ops /\ last'.code = 200)
    => /\ Len(EntriesOf(history', last'.o)) =
            Len(EntriesOf(history, last'.o)) + 1
       /\ Len(history') = Len(history) + 1
       /\ SubSeq(history', 1, Len(history)) = history

C26_OneHistoryEntryPerTransition == [][GrowsByOne(TransitionOps)]_vars

\* what does hold: one entry for every operation but take-order, and for
\* take-order one entry when a row of (order, executor) exists and two when
\* the executor assigns themselves
C26_HoldsExceptSelfAssignment ==
  [][/\ GrowsByOne(TransitionOps \ {"take_order"})
     /\ (last'.op = "take_order" /\ last'.code = 200) =>
          Len(history') = Len(history) +
            (IF AssignmentsOf(DB, last'.o, last'.user) = {} THEN 2 ELSE 1)]_vars

\* an executor took an order they had no assignment for: the order was
\* created and taken, and has three history entries
C26_TwoEntriesForOneTake ==
  /\ last.op = "take_order"
  /\ last.code = 200
  /\ Len(history) = 3
  /\ Len(assignments) = 1
  /\ history[2].status = "EXECUTOR_ASSIGNED"
  /\ history[3].status = "EXECUTOR_ASSIGNED"

\* ---------------------------------------------------------------------------
\* C27: two concurrent saves of the same (order, version type), both started
\* while no row of that type existed, leave exactly one stored row of that
\* type.
BothSavedFromNone ==
  /\ \A s \in Sessions : sessions[s].pc = "saved" /\ sessions[s].found = 0
  /\ sessions["s1"].o = sessions["s2"].o
  /\ sessions["s1"].payload.version_type =
       sessions["s2"].payload.version_type

C27_ConcurrentSavesLeaveOneRow ==
  BothSavedFromNone =>
    Cardinality(VersionsOf(DB, sessions["s1"].o,
                           sessions["s1"].payload.version_type)) = 1

\* what does hold: each of the two saves inserted a row of its own
C27_HoldsAsTwoRows ==
  BothSavedFromNone =>
    LET rows == VersionsOf(DB, sessions["s1"].o,
                           sessions["s1"].payload.version_type)
    IN /\ Cardinality(rows) = 2
       /\ {versions[i].plan : i \in rows} =
            {sessions[s].payload.plan : s \in Sessions}

\* both saves are done and the order has two rows of the type
C27_TwoRowsOfOneType ==
  /\ BothSavedFromNone
  /\ Cardinality(VersionsOf(DB, sessions["s1"].o, "ORIGINAL")) = 2

\* ---------------------------------------------------------------------------
\* C28: saving and retrieving agree on the row of a version type: after
\* saveVersion(order, T, doc), retrieving the order's version by a type equal
\* to T ignoring letter case returns the row holding doc, whatever saves came
\* before, saves of the type in another case included.
RetrievedAfterSave ==
  /\ last.op = "save_plan"
  /\ last.code = 200
  /\ last'.op = "executor_get_plan"
  /\ last'.o = last.o
  /\ Upper(last'.arg.version) = Upper(last.arg.version_type)

C28_RetrievedIsTheSavedRow ==
  [][RetrievedAfterSave =>
       /\ last'.code = 200
       /\ last'.arg.returned[1].plan = last.arg.plan]_vars

\* the order has no two rows whose types differ only in letter case
OneCasePerType(o) ==
  \A i, j \in 1..Len(versions) :
     (/\ versions[i].order_id = o
      /\ versions[j].order_id = o
      /\ Upper(versions[i].version_type) = Upper(versions[j].version_type))
     => versions[i].version_type = versions[j].version_type

\* what does hold: the saved row is retrieved as long as every type of the
\* order was saved in one case only
C28_HoldsWithOneCase ==
  [][(RetrievedAfterSave /\ OneCasePerType(last.o)) =>
       /\ last'.code = 200
       /\ last'.arg.returned[1].plan = last.arg.plan]_vars

\* a read by type answered with a plan other than the one just saved under
\* that type in the other case
C28_OtherRowRetrieved ==
  /\ last.op = "executor_get_plan"
  /\ last.code = 200
  /\ Len(versions) = 2
  /\ versions[1].version_type = "ORIGINAL"
  /\ versions[2].version_type = "original"
  /\ versions[1].plan # versions[2].plan
  /\ last.arg.version = "original"
  /\ last.arg.returned[1].plan = versions[1].plan

\* ---------------------------------------------------------------------------
\* C30: the wall splitter is idempotent: applied to its own output it returns
\* a plan equal to that output, for every plan.
C30_SplitIsIdempotent ==
  /\ Len(plan_out) = 2 => plan_out[2] = plan_out[1]
  /\ plan_out # <<>> =>
       SplitWallSegments(plan_out[1]) = plan_out[1]

\* the splitter cut a wall into segments, and the second application left
\* the segments as they were
C30_Witness ==
  /\ Len(plan_out) = 2
  /\ plan_out[1] # plan_in
  /\ Len(plan_out[1].elements) > Len(plan_in.elements)
  /\ plan_out[2] = plan_out[1]

====
